---- MODULE Spec2Model ----
(***************************************************************************)
(* Checkpoint/resume state machine of the RenewBench crawler.              *)
(*                                                                         *)
(* One output directory is modelled.  It holds the checkpoint file         *)
(* status.pickle and the output files of one provider.  A process          *)
(* invocation constructs a downloader (EntsoeInit, IconInit, Era5Init)     *)
(* and then runs its download routine, one loop iteration per step.        *)
(* When the routine ends (normally or with an uncaught exception) a new    *)
(* process may be started on the same directory.                           *)
(***************************************************************************)
EXTENDS Integers, Sequences, FiniteSets, TLC

\* ------------------------------------------------------------------------
\* Bounds of the model
\* ------------------------------------------------------------------------
\* longest key list of one grid dimension
MaxDim == 2
\* largest number of cells of a grid
MaxCells == 4
\* number of process invocations on the output directory
MaxRuns == 2
\* keys in a dictionary handed to update_config, nested ones included
MaxEntries == 3
\* key=value pairs handed to parse_key_value_pairs
MaxPairs == 2
\* units of a grid that two concurrent processes work on
MaxShared == 2

\* ------------------------------------------------------------------------
\* Optional values (Python None) and numpy arrays
\* ------------------------------------------------------------------------
None == <<>>
Some(x) == <<x>>

Min(a, b) == IF a < b THEN a ELSE b

\* index tuples of an array of the given shape (0-based, as numpy)
Indices(shape) ==
  IF Len(shape) = 2
    THEN {<<i, j>> : i \in 0..(shape[1] - 1), j \in 0..(shape[2] - 1)}
    ELSE {<<i, j, k>> : i \in 0..(shape[1] - 1), j \in 0..(shape[2] - 1),
                        k \in 0..(shape[3] - 1)}

\* np.zeros(shape)
Zeros(shape) == [shape |-> shape, data |-> [ix \in Indices(shape) |-> 0]]

\* the array used before any downloader has been constructed
NoArray == [shape |-> <<>>, data |-> <<>>]

\* arr[ix] raises IndexError when ix is outside the array
InBounds(arr, ix) == ix \in DOMAIN arr.data

\* an assignment into a matrix that is rebuilt from zeros
SetCellReset(arr, ix, v) ==
  [arr EXCEPT !.data = [jx \in DOMAIN @ |-> IF jx = ix THEN v ELSE 0]]

\* an assignment that marks the cell done whatever the status
SetCellDone(arr, ix, v) == [arr EXCEPT !.data = [@ EXCEPT ![ix] = 1]]

\* arr[ix] = v
SetCell(arr, ix, v) == [arr EXCEPT !.data = [@ EXCEPT ![ix] = v]]

ndim(arr) == Len(arr.shape)

\* a loop that never takes the skip branch
is_done_never(arr, ix) == arr.data[ix] # arr.data[ix]

\* the test made before a unit is downloaded: the unit's cell is nonzero
is_done(arr, ix) == arr.data[ix] # 0

\* list.index(x): position (0-based) of the first occurrence
Index(list, x) == (CHOOSE i \in 1..Len(list) :
                     list[i] = x /\ \A j \in 1..(i - 1) : list[j] # x) - 1

\* nonempty prefixes of a key universe, at most MaxDim long
KeyLists(universe) ==
  {SubSeq(universe, 1, n) : n \in 1..Min(MaxDim, Len(universe))}

Range(s) == {s[i] : i \in 1..Len(s)}

\* ------------------------------------------------------------------------
\* Key universes of the grid dimensions
\* ------------------------------------------------------------------------
FirstYear == 2020
YearUniverse == [i \in 1..MaxDim |-> FirstYear + i - 1]
AllMonths == <<"01", "02", "03", "04", "05", "06",
               "07", "08", "09", "10", "11", "12">>
MonthUniverse == SubSeq(AllMonths, 1, Min(MaxDim, Len(AllMonths)))

\* entsoe.utils.mappings: supported bidding zones (EIC codes)
mappings == <<"10YES-REE------0", "10YFR-RTE------C", "10YBE----------2">>
ZoneUniverse == SubSeq(mappings, 1, Min(MaxDim, Len(mappings)))
UnsupportedZone == " "

VARIABLES
  provider,        \* which downloader owns the output directory
  status_pickle,   \* checkpoint file on disk: None or Some(array)
  outputs,         \* output files present in the output directory
  pc,              \* "init", "loop", "done", "error", "config_error"
  runs,            \* process invocations so far
  years,           \* self.years
  months,          \* self.months
  bidding_zones,   \* self.bidding_zones
  variables,       \* self.variables
  pressure_levels, \* self.pressure_levels (None or Some(list))
  model_levels,    \* self.model_levels (None or Some(list))
  dry_run,         \* self.dry_run
  file_format,     \* self.file_format of the ERA5 downloader
  resume,          \* resume argument of the constructor
  checkpoint,      \* self.checkpoint
  loop,            \* loop counters of the download routine
  visited,         \* units reached by the loop in this run, in order
  calls,           \* units handed to the unit downloader in this run
  network,         \* units for which a provider request was sent in this run
  loaded,          \* self.checkpoint as the constructor left it
  first_run,       \* final checkpoint of the run this run repeats, or None
  first_calls,     \* calls of the run this run repeats
  failed,          \* where the run that this run resumes raised, or None
  peer,            \* the suspended one of two concurrent processes, or None
  raised,          \* exception that ended the process, or None
  result,          \* what query_api answered to the last ENTSO-E unit
  contents,        \* rows of the CSV files in the output directory; Partial
                   \* for a GRIB file whose writing was cut short
  configs,         \* parsed YAML file of each source in the configs directory
  heap,            \* Python dictionaries by address, after the last loader call
  argv,            \* flags on the command line of the script that started the process
  last_call        \* the last call of the configuration loader, or of the ERA5
                   \* request builder, and its outcome

vars == <<provider, status_pickle, outputs, pc, runs, years, months,
          bidding_zones, variables, pressure_levels, model_levels, dry_run,
          file_format, resume, checkpoint, loop, visited, calls, network, loaded,
          first_run, first_calls, failed, peer, raised, result,
          contents, configs, heap, last_call, argv>>

loaderVars == <<configs, heap, last_call>>

dirVars == <<status_pickle, outputs, contents>>
cfgVars == <<years, months, bidding_zones, variables, pressure_levels,
             model_levels, dry_run, file_format, resume>>

Providers == {"entsoe", "icon", "era5"}

\* the grid the current downloader was constructed with
Grid == <<years, months, bidding_zones, variables,
          pressure_levels = None, model_levels = None>>

\* a process can be started: none is running and the run budget is left
CanStart == pc \in {"init", "done", "error", "config_error"} /\ runs < MaxRuns

\* no query has been answered in this run
NoResult == [kind |-> "none", records |-> <<>>]

\* an exception object: its class and the statement that raised it
Exception(class, at) == [class |-> class, at |-> at]

\* the constructor raised: the process ends without a downloader
ConfigError(exc) ==
  /\ pc' = "config_error"
  /\ raised' = Some(exc)
  /\ runs' = runs + 1
  /\ years' = <<>> /\ months' = <<>> /\ bidding_zones' = <<>>
  /\ variables' = <<>> /\ pressure_levels' = None /\ model_levels' = None
  /\ dry_run' = FALSE /\ resume' = FALSE /\ file_format' = ""
  /\ checkpoint' = NoArray /\ loaded' = NoArray
  /\ loop' = <<0, 0, 0>> /\ visited' = <<>> /\ calls' = <<>>
  /\ network' = <<>>
  /\ first_run' = None /\ first_calls' = <<>> /\ failed' = None /\ peer' = peer
  /\ result' = NoResult
  /\ UNCHANGED <<provider, dirVars>>

\* a downloader was constructed and its download routine starts
Constructed(ckpt, grid) ==
  /\ pc' = "loop"
  /\ runs' = runs + 1
  /\ checkpoint' = ckpt
  /\ loaded' = ckpt
  /\ loop' = <<0, 0, 0>> /\ visited' = <<>> /\ calls' = <<>>
  /\ network' = <<>>
  /\ first_run' = IF pc = "done" /\ resume /\ resume' /\ grid = Grid
                    THEN Some(checkpoint) ELSE None
  /\ first_calls' = IF first_run' # None THEN calls ELSE <<>>
  /\ failed' = IF pc = "error" /\ resume' /\ grid = Grid
                 THEN Some([ix |-> loop, exc |-> raised[1],
                            checkpoint |-> checkpoint,
                            file |-> status_pickle])
                 ELSE None
  /\ raised' = None
  /\ result' = NoResult
  /\ UNCHANGED <<provider, dirVars, peer>>

\* a checkpoint that is never loaded from disk
InitCheckpointFresh(res, file, shape) == Zeros(shape)

\* a checkpoint that is loaded whenever the file exists
InitCheckpointAlways(res, file, shape) ==
  IF file # None THEN file[1] ELSE Zeros(shape)

\* the checkpoint of a new downloader: pickle.load of the file when resume
\* is set and the file exists, np.zeros(shape) otherwise
InitCheckpoint(res, file, shape) ==
  IF res /\ file # None THEN file[1] ELSE Zeros(shape)

\* loops nested the other way round: second dimension outermost
AdvanceSwapped(pos, dims) ==
  IF pos[3] + 1 < dims[3] THEN Some(<<pos[1], pos[2], pos[3] + 1>>)
  ELSE IF pos[1] + 1 < dims[1] THEN Some(<<pos[1] + 1, pos[2], 0>>)
  ELSE IF pos[2] + 1 < dims[2] THEN Some(<<0, pos[2] + 1, 0>>)
  ELSE None

\* loops that stay at the unit they are at
AdvanceStuck(pos, dims) == Some(pos)

\* next position of three nested loops with trip counts dims, or None
Advance(pos, dims) ==
  IF pos[3] + 1 < dims[3] THEN Some(<<pos[1], pos[2], pos[3] + 1>>)
  ELSE IF pos[2] + 1 < dims[2] THEN Some(<<pos[1], pos[2] + 1, 0>>)
  ELSE IF pos[1] + 1 < dims[1] THEN Some(<<pos[1] + 1, 0, 0>>)
  ELSE None

\* the loop body ended normally: go to the next unit or finish
Continue(dims) ==
  LET nxt == Advance(loop, dims) IN
  /\ raised' = None
  /\ IF nxt = None THEN pc' = "done" /\ loop' = loop
                   ELSE pc' = "loop" /\ loop' = nxt[1]

\* an exception that is logged while the loop goes on
RaiseSwallowed(exc) == pc' = "loop" /\ loop' = loop /\ raised' = Some(exc)

\* an exception left the download routine
Raise(exc) == pc' = "error" /\ loop' = loop /\ raised' = Some(exc)

\* one call of a unit downloader: the unit, the status it returned and
\* whether it returned at all
Attempt(unit, status, returned) ==
  [ix |-> unit.ix, cell |-> unit.cell, key |-> unit.key,
   status |-> status, returned |-> returned]

\* ------------------------------------------------------------------------
\* ENTSO-E downloader
\* ------------------------------------------------------------------------
EntsoeZoneLists == KeyLists(ZoneUniverse) \cup {<<UnsupportedZone>>}

\* Python values of the two types a year is given in
PyInt(n) == [int |-> n]
PyStr(str) == [str |-> str]
is_str(v) == "str" \in DOMAIN v

\* year lists: strings as the constructor documents, or the one-year list
\* of integers of the command line default
EntsoeYearLists ==
  KeyLists([i \in 1..MaxDim |-> PyStr(ToString(YearUniverse[i]))])
    \cup {<<PyInt(FirstYear)>>}

PSRTYPE_MAPPINGS ==
  [code \in {"B01", "B02", "B03", "B04", "B05", "B06", "B07", "B08", "B09",
             "B10", "B11", "B12", "B13", "B14", "B15", "B16", "B17", "B18",
             "B19", "B20", "B21", "B22", "B23", "B24", "B25"} |->
    CASE code = "B01" -> "Biomass"
      [] code = "B02" -> "Fossil Brown coal/Lignite"
      [] code = "B03" -> "Fossil Coal-derived gas"
      [] code = "B04" -> "Fossil Gas"
      [] code = "B05" -> "Fossil Hard coal"
      [] code = "B06" -> "Fossil Oil"
      [] code = "B07" -> "Fossil Oil shale"
      [] code = "B08" -> "Fossil Peat"
      [] code = "B09" -> "Geothermal"
      [] code = "B10" -> "Hydro Pumped Storage"
      [] code = "B11" -> "Hydro Run-of-river and poundage"
      [] code = "B12" -> "Hydro Water Reservoir"
      [] code = "B13" -> "Marine"
      [] code = "B14" -> "Nuclear"
      [] code = "B15" -> "Other renewable"
      [] code = "B16" -> "Solar"
      [] code = "B17" -> "Waste"
      [] code = "B18" -> "Wind Offshore"
      [] code = "B19" -> "Wind Onshore"
      [] code = "B20" -> "Other"
      [] code = "B21" -> "AC Link"
      [] code = "B22" -> "DC Link"
      [] code = "B23" -> "Substation"
      [] code = "B24" -> "Transformer"
      [] code = "B25" -> "Energy storage"]

PsrTypeKey == "time_series.mkt_psrtype.psr_type"

RELEVANT_RECORD_KEYS ==
  (PsrTypeKey :> "production_type")
    @@ ("time_series.mkt_psrtype.power_system_resources.name" :> "plant_name")
    @@ ("time_series.period.point.quantity" :> "quantity")
    @@ ("time_series.quantity_measure_unit_name" :> "unit")
    @@ ("timestamp" :> "timestamp")

\* a record as extract_records and add_timestamps deliver it
Record(code) ==
  (PsrTypeKey :> code)
    @@ ("time_series.mkt_psrtype.power_system_resources.name" :> "Test plant")
    @@ ("time_series.period.point.quantity" :> "100")
    @@ ("time_series.quantity_measure_unit_name" :> "MW")
    @@ ("timestamp" :> "2020-01-01 12:00:00")

\* the record without one of its keys
Without(rec, key) == [k \in DOMAIN rec \ {key} |-> rec[k]]

\* what query_api can do: raise ServiceUnavailableError, return the request
\* object unfilled, or return a result with the given records
EntsoeOutcomes ==
  {[kind |-> "unavailable", records |-> <<>>],
   [kind |-> "request", records |-> <<>>],
   [kind |-> "records", records |-> <<>>],
   [kind |-> "records", records |-> <<Record("B01")>>],
   [kind |-> "records", records |-> <<Record("B01"), Record("A05")>>],
   [kind |-> "records", records |-> <<Without(Record("B01"), PsrTypeKey)>>],
   [kind |-> "records",
    records |-> <<Record("B01"), Without(Record("B16"), PsrTypeKey)>>]}

\* columns of pd.DataFrame(records): the keys of all records
columns(records) == UNION {DOMAIN records[i] : i \in 1..Len(records)}

\* the row of a record after loc and rename: a missing value is None (NaN)
Row(index, rec) ==
  [index |-> index,
   cells |-> [c \in {RELEVANT_RECORD_KEYS[k] : k \in DOMAIN RELEVANT_RECORD_KEYS} |->
               LET k == CHOOSE k \in DOMAIN RELEVANT_RECORD_KEYS :
                          RELEVANT_RECORD_KEYS[k] = c
               IN IF k \in DOMAIN rec THEN Some(rec[k]) ELSE None]]

\* a frame that keeps the PSR codes and every row
production_rows_unmapped(records) ==
  [i \in 1..Len(records) |-> Row(i - 1, records[i])]

\* map(PSRTYPE_MAPPINGS) and dropna on production_type: the rows of the CSV
\* file, with the index the records had
production_rows(records) ==
  LET mapped(i) ==
        LET row == Row(i - 1, records[i])
            code == row.cells["production_type"]
        IN IF code # None /\ code[1] \in DOMAIN PSRTYPE_MAPPINGS
             THEN Some([row EXCEPT !.cells["production_type"] =
                                      Some(PSRTYPE_MAPPINGS[code[1]])])
             ELSE None
      kept == {i \in 1..Len(records) : mapped(i) # None}
      \* the n-th kept record
      nth(n) == CHOOSE i \in kept : Cardinality({j \in kept : j < i}) = n - 1
  IN [n \in 1..Cardinality(kept) |-> mapped(nth(n))[1]]

\* a unit downloader for which an empty result is a failure
dump_to_csv_empty_fails(res, year) ==
  LET nothing(exc, status) ==
        [raised |-> exc, status |-> status, wrote |-> FALSE, rows |-> <<>>]
  IN
  IF res.kind = "unavailable"
    THEN nothing(Some(Exception("ValueError", "unavailable")), 0)
  ELSE IF res.kind = "request"
    THEN nothing(None, 0)
  ELSE IF res.records = <<>>
    THEN nothing(None, 0)
  ELSE IF ~(DOMAIN RELEVANT_RECORD_KEYS \subseteq columns(res.records))
    THEN nothing(None, 0)
  ELSE IF ~is_str(year)
    THEN nothing(Some(Exception("TypeError", "file_path")), 0)
  ELSE [raised |-> None, status |-> 1, wrote |-> TRUE,
        rows |-> production_rows(res.records)]

\* dump_to_csv: whether it raises, the status it returns, whether it writes
\* the CSV file and the rows it writes
dump_to_csv(res, year) ==
  LET nothing(exc, status) ==
        [raised |-> exc, status |-> status, wrote |-> FALSE, rows |-> <<>>]
  IN
  IF res.kind = "unavailable"
    THEN nothing(Some(Exception("ValueError", "unavailable")), 0)
  ELSE IF res.kind = "request"
    THEN nothing(None, 0)
  ELSE IF res.records = <<>>
    THEN nothing(None, 1)
  ELSE IF ~(DOMAIN RELEVANT_RECORD_KEYS \subseteq columns(res.records))
    \* KeyError
    THEN nothing(None, 0)
  ELSE IF ~is_str(year)
    \* year + ".csv"
    THEN nothing(Some(Exception("TypeError", "file_path")), 0)
  ELSE [raised |-> None, status |-> 1, wrote |-> TRUE,
        rows |-> production_rows(res.records)]

EntsoeDims == <<Len(years), Len(bidding_zones), 1>>

\* the constructor past its checks: fields and checkpoint
EntsoeFields(yrs, zones, res) ==
  /\ years' = yrs
  /\ bidding_zones' = zones
  /\ months' = <<>> /\ variables' = <<>>
  /\ pressure_levels' = None /\ model_levels' = None
  /\ dry_run' = FALSE /\ file_format' = ""
  /\ resume' = res
  /\ Constructed(InitCheckpoint(res, status_pickle,
                                <<Len(yrs), Len(zones)>>),
                 <<yrs, <<>>, zones, <<>>, TRUE, TRUE>>)

\* EntsoeDownloader(...), the resume argument one of resumes
\* the years arguments whose grid has at most MaxCells units
EntsoeGrids(zones) ==
  {yrs \in EntsoeYearLists : Len(yrs) * Len(zones) <= MaxCells}

EntsoeConstruct(resumes) ==
  \E zones \in EntsoeZoneLists :
    LET grids == EntsoeGrids(zones)
    IN
    /\ grids # {}
    /\ IF \E i \in 1..Len(zones) : zones[i] \notin Range(mappings)
         THEN ConfigError(Exception("ValueError", "bidding_zone"))
         ELSE \E token_ok \in BOOLEAN :
                IF ~token_ok
                  THEN ConfigError(Exception("ValueError", "token"))
                  ELSE \E yrs \in grids, res \in resumes :
                         EntsoeFields(yrs, zones, res)

EntsoeInit ==
  /\ provider = "entsoe"
  /\ UNCHANGED <<loaderVars, argv>>
  /\ CanStart
  /\ EntsoeConstruct(BOOLEAN)

\* one iteration of the loops of dump_all_to_csv
EntsoeDumpAllToCsv ==
  /\ provider = "entsoe"
  /\ UNCHANGED <<loaderVars, argv>>
  /\ pc = "loop"
  /\ LET idx  == loop[1]
         ibz  == loop[2]
         year == years[idx + 1]
         zone == bidding_zones[ibz + 1]
         unit == [ix |-> loop, cell |-> <<idx, ibz>>, key |-> <<year, zone>>]
     IN
     /\ visited' = Append(visited, unit)
     /\ IF ~InBounds(checkpoint, <<idx, ibz>>)
          THEN /\ Raise(Exception("IndexError", "checkpoint"))
               /\ UNCHANGED <<checkpoint, calls, network, dirVars, result>>
          ELSE IF ~is_done(checkpoint, <<idx, ibz>>)
            THEN \E outcome \in EntsoeOutcomes :
                   LET r == dump_to_csv(outcome, year) IN
                   /\ calls' = Append(calls, Attempt(unit, r.status,
                                                     r.raised = None))
                   /\ network' = Append(network, unit)
                   /\ result' = outcome
                   /\ IF r.raised # None
                        THEN /\ Raise(r.raised[1])
                             /\ UNCHANGED <<checkpoint, dirVars>>
                        ELSE /\ checkpoint' = SetCell(checkpoint, <<idx, ibz>>, r.status)
                             /\ status_pickle' = Some(checkpoint')
                             /\ outputs' = IF r.wrote
                                             THEN outputs \cup {<<zone, year>>}
                                             ELSE outputs
                             /\ contents' = IF r.wrote
                                              THEN (<<zone, year>> :> r.rows)
                                                     @@ contents
                                              ELSE contents
                             /\ Continue(EntsoeDims)
            ELSE /\ Continue(EntsoeDims)
                 /\ UNCHANGED <<checkpoint, calls, network, dirVars, result>>
  /\ UNCHANGED <<provider, runs, cfgVars, loaded, first_run, first_calls, failed,
               peer>>

\* ------------------------------------------------------------------------
\* ICON-DREAM Global downloader
\* ------------------------------------------------------------------------
\* variables offered by the DWD portal (discovered or the fallback set)
available_variables == {"T", "U", "V"}
IconVarUniverse == SubSeq(<<"T", "U", "V">>, 1, Min(MaxDim, 3))
InvalidVar == "INVALID_VAR"

\* _get_default_variables
get_default_variables == <<"T">>

IconVarInputs == {Some(l) : l \in KeyLists(IconVarUniverse)}
                   \cup {Some(<<InvalidVar>>), None}

\* what the streamed HTTP download of one file can do: succeed, fail in
\* requests.get or raise_for_status ("request_exception"), or fail while
\* the chunks are written ("exception")
IconOutcomes == {"ok", "request_exception", "exception"}

\* the output directory once the download has stopped: open(output_file,
\* "wb") is reached unless the request itself failed
streamed(file, files, outcome) ==
  IF outcome = "request_exception" THEN files ELSE files \cup {file}

\* a unit downloader whose handlers leave the partial file behind
download_file_keeping_partial(file, files, dry, outcome) ==
  IF file \in files
    THEN [status |-> 1, request |-> FALSE, files |-> files]
  ELSE IF dry
    THEN [status |-> 1, request |-> FALSE, files |-> files]
  ELSE IF outcome = "ok"
    THEN [status |-> 1, request |-> TRUE, files |-> streamed(file, files, outcome)]
    ELSE [status |-> 0, request |-> TRUE, files |-> streamed(file, files, outcome)]

\* _download_file: status, whether an HTTP request is sent, and the files
\* of the output directory afterwards
download_file(file, files, dry, outcome) ==
  IF file \in files
    THEN [status |-> 1, request |-> FALSE, files |-> files]
  ELSE IF dry
    THEN [status |-> 1, request |-> FALSE, files |-> files]
  ELSE IF outcome = "ok"
    THEN [status |-> 1, request |-> TRUE, files |-> streamed(file, files, outcome)]
    \* failure: output_file.unlink() if the file exists
    ELSE [status |-> 0, request |-> TRUE,
          files |-> streamed(file, files, outcome) \ {file}]

IconDims == <<Len(years), Len(months), Len(variables)>>

\* IconDreamGlobalDownloader(...), the resume argument one of resumes
\* the variables argument after the defaulting of the constructor
IconVars ==
  {IF vars_in # None THEN vars_in[1] ELSE get_default_variables :
     vars_in \in IconVarInputs}

\* the <<years, months>> arguments whose grid has at most MaxCells units
IconGrids(vs) ==
  {g \in KeyLists(YearUniverse) \X KeyLists(MonthUniverse) :
     Len(g[1]) * Len(g[2]) * Len(vs) <= MaxCells}

IconConstruct(resumes) ==
  \E vs \in IconVars :
    LET grids == IconGrids(vs)
    IN
    /\ grids # {}
    /\ IF \E i \in 1..Len(vs) : vs[i] \notin available_variables
         THEN ConfigError(Exception("ValueError", "variables"))
         ELSE \E g \in grids, dry \in BOOLEAN, res \in resumes :
              LET yrs == g[1]
                  mths == g[2]
              IN
              /\ years' = yrs
              /\ months' = mths
              /\ variables' = vs
              /\ bidding_zones' = <<>>
              /\ pressure_levels' = None /\ model_levels' = None
              /\ dry_run' = dry /\ file_format' = ""
              /\ resume' = res
              /\ Constructed(
                   InitCheckpoint(res, status_pickle,
                                  <<Len(yrs), Len(mths), Len(vs)>>),
                   <<yrs, mths, <<>>, vs, TRUE, TRUE>>)

IconInit ==
  /\ provider = "icon"
  /\ UNCHANGED <<loaderVars, argv>>
  /\ CanStart
  /\ IconConstruct(BOOLEAN)

\* one iteration of the loops of download_data
IconDownloadData ==
  /\ provider = "icon"
  /\ UNCHANGED <<loaderVars, argv>>
  /\ pc = "loop"
  /\ LET year_idx  == loop[1]
         month_idx == loop[2]
         var_idx   == loop[3]
         ix        == <<year_idx, month_idx, var_idx>>
         file      == <<years[year_idx + 1], months[month_idx + 1],
                        variables[var_idx + 1]>>
         unit      == [ix |-> loop, cell |-> ix, key |-> file]
     IN
     /\ visited' = Append(visited, unit)
     /\ IF ~InBounds(checkpoint, ix)
          THEN /\ Raise(Exception("IndexError", "checkpoint"))
               /\ UNCHANGED <<checkpoint, calls, network, dirVars>>
          ELSE IF is_done(checkpoint, ix)
            THEN /\ Continue(IconDims)
                 /\ UNCHANGED <<checkpoint, calls, network, dirVars>>
            ELSE \E outcome \in IconOutcomes :
                   LET r == download_file(file, outputs, dry_run, outcome) IN
                   /\ calls' = Append(calls, Attempt(unit, r.status, TRUE))
                   /\ network' = IF r.request THEN Append(network, unit)
                                              ELSE network
                   /\ outputs' = r.files
                   /\ contents' = contents
                   /\ IF r.status = 1
                        THEN /\ checkpoint' = SetCell(checkpoint, ix, 1)
                             \* _save_checkpoint
                             /\ status_pickle' = Some(checkpoint')
                        ELSE UNCHANGED <<checkpoint, status_pickle>>
                   /\ Continue(IconDims)
  /\ UNCHANGED <<provider, runs, cfgVars, loaded, first_run, first_calls, failed, peer,
               result>>

\* ------------------------------------------------------------------------
\* ERA5 downloader (rbc/weather/era5)
\* ------------------------------------------------------------------------
\* variable sets of rbc.weather.era5.mappings, restricted to the variables
\* the model uses
ALL_SINGLE_LEVEL_VARIABLES == {"2m_temperature"}
ALL_PRESSURE_LEVEL_VARIABLES == {"temperature"}
ALL_MODEL_LEVEL_VARIABLES == {"temperature"}
DEFAULT_PRESSURE_LEVELS == <<"1000", "975", "950">>
\* a nonempty list; the loops only test it against None
DEFAULT_MODEL_LEVELS == <<"135", "136", "137">>

Era5VarLists == {<<"2m_temperature">>, <<"temperature">>,
                 <<"2m_temperature", "temperature">>, <<"invalid_variable">>}
Era5PressureInputs == {None, Some(<<>>), Some(DEFAULT_PRESSURE_LEVELS)}
Era5ModelInputs == {None, Some(<<>>), Some(DEFAULT_MODEL_LEVELS)}
FileFormats == {"GRIB", "hdf5"}

\* str.lower() on the strings of the model
lower(str) ==
  CASE str = "GRIB" -> "grib"
    [] str \in {"None", "NONE"} -> "none"
    [] OTHER -> str

\* the level defaulting of the constructor: <<pressure_levels, model_levels>>
DefaultLevels(pl, ml) ==
  IF pl = None /\ ml = None
    THEN <<Some(DEFAULT_PRESSURE_LEVELS), None>>
    ELSE <<IF pl # None /\ Len(pl[1]) = 0
             THEN Some(DEFAULT_PRESSURE_LEVELS) ELSE pl,
           IF ml # None /\ Len(ml[1]) = 0
             THEN Some(DEFAULT_MODEL_LEVELS) ELSE ml>>

\* a validation that only looks at the level types of known 3-D variables
validate_variables_lenient(vs, pl, ml) ==
  \A i \in 1..Len(vs) :
    vs[i] \in ALL_PRESSURE_LEVEL_VARIABLES \cup ALL_MODEL_LEVEL_VARIABLES =>
      /\ pl # None => vs[i] \in ALL_PRESSURE_LEVEL_VARIABLES
      /\ ml # None => vs[i] \in ALL_MODEL_LEVEL_VARIABLES

\* _validate_variables: TRUE when no ValueError is raised
validate_variables(vs, pl, ml) ==
  \A i \in 1..Len(vs) :
    \/ vs[i] \in ALL_SINGLE_LEVEL_VARIABLES
    \/ /\ vs[i] \in ALL_PRESSURE_LEVEL_VARIABLES \cup ALL_MODEL_LEVEL_VARIABLES
       /\ pl # None => vs[i] \in ALL_PRESSURE_LEVEL_VARIABLES
       /\ ml # None => vs[i] \in ALL_MODEL_LEVEL_VARIABLES

Bit(b) == IF b THEN 1 ELSE 0

\* a count that leaves out the single level
num_level_types_3d(pl, ml) == Bit(pl # None) + Bit(ml # None)

\* num_level_types = sum([has_single, has_pressure, has_model])
num_level_types(pl, ml) == Bit(TRUE) + Bit(pl # None) + Bit(ml # None)

\* shape of the fresh checkpoint of the ERA5 constructor
Era5FreshShape(yrs, mths, pl, ml) ==
  IF num_level_types(pl, ml) > 1
    THEN <<Len(yrs), Len(mths), num_level_types(pl, ml)>>
    ELSE <<Len(yrs), Len(mths)>>

\* the calls of _download_variables made for one (year, month), in order
LevelTypes(pl, ml) ==
  <<"single">> \o (IF pl # None THEN <<"pressure">> ELSE <<>>)
              \o (IF ml # None THEN <<"model">> ELSE <<>>)

\* checkpoint_idx_map.get(level_type, 0)
checkpoint_idx_map(level_type, pl, ml) ==
  CASE level_type = "single"   -> 0
    [] level_type = "pressure" -> IF pl # None THEN 1 ELSE 0
    [] level_type = "model"    -> IF ml # None THEN 1 + Bit(pl # None) ELSE 0

\* variables_to_download of _download_variables
variables_to_download(vs, level_type) ==
  LET known == CASE level_type = "single"   -> ALL_SINGLE_LEVEL_VARIABLES
                 [] level_type = "pressure" -> ALL_PRESSURE_LEVEL_VARIABLES
                 [] OTHER                   -> ALL_MODEL_LEVEL_VARIABLES
  IN SelectSeq(vs, LAMBDA v : v \in known)

\* the checkpoint cell of a unit: 3-D arrays use the level-type index
Era5Cell(arr, year_idx, month_idx, checkpoint_idx) ==
  IF ndim(arr) = 3 THEN <<year_idx, month_idx, checkpoint_idx>>
                   ELSE <<year_idx, month_idx>>

\* what client.retrieve can do
Era5Outcomes == {"ok", "exception"}

\* a dry run that submits the request all the same
download_variables_retrieving(dry, outcome) ==
  IF dry
    THEN [status |-> 1, retrieve |-> TRUE, update |-> FALSE, wrote |-> FALSE]
    ELSE [status |-> IF outcome = "ok" THEN 1 ELSE 0,
          retrieve |-> TRUE, update |-> TRUE, wrote |-> outcome = "ok"]

\* a dry run that records its status like a real download
download_variables_marking(dry, outcome) ==
  IF dry
    THEN [status |-> 1, retrieve |-> FALSE, update |-> TRUE, wrote |-> FALSE]
    ELSE [status |-> IF outcome = "ok" THEN 1 ELSE 0,
          retrieve |-> TRUE, update |-> TRUE, wrote |-> outcome = "ok"]

\* a unit downloader that reports success although client.retrieve raised
download_variables_optimistic(dry, outcome) ==
  IF dry
    THEN [status |-> 1, retrieve |-> FALSE, update |-> FALSE, wrote |-> FALSE]
    ELSE [status |-> 1, retrieve |-> TRUE, update |-> TRUE,
          wrote |-> outcome = "ok"]

\* _download_variables past the checkpoint test: the status it returns,
\* whether client.retrieve is called, whether the checkpoint is updated and
\* saved, and whether the output file was written
download_variables(dry, outcome) ==
  IF dry
    THEN [status |-> 1, retrieve |-> FALSE, update |-> FALSE, wrote |-> FALSE]
    ELSE [status |-> IF outcome = "ok" THEN 1 ELSE 0,
          retrieve |-> TRUE, update |-> TRUE, wrote |-> outcome = "ok"]

Era5Dims == <<Len(years), Len(months),
              Len(LevelTypes(pressure_levels, model_levels))>>

\* the constructor past its checks: fields and checkpoint
Era5Fields(yrs, mths, vs, pl, ml, res, dry, fmt) ==
  /\ file_format' = lower(fmt)
  /\ years' = yrs
  /\ months' = mths
  /\ variables' = vs
  /\ bidding_zones' = <<>>
  /\ pressure_levels' = pl
  /\ model_levels' = ml
  /\ dry_run' = dry
  /\ resume' = res
  /\ Constructed(InitCheckpoint(res, status_pickle,
                                Era5FreshShape(yrs, mths, pl, ml)),
                 <<yrs, mths, <<>>, vs, pl = None, ml = None>>)

\* the level arguments after the defaulting of the constructor
Era5Levels ==
  {DefaultLevels(pl_in, ml_in) :
     pl_in \in Era5PressureInputs, ml_in \in Era5ModelInputs}

\* the <<years, months>> arguments whose grid has at most MaxCells units
Era5Grids(pl, ml) ==
  {g \in KeyLists(YearUniverse) \X KeyLists(MonthUniverse) :
     Len(g[1]) * Len(g[2]) * num_level_types(pl, ml) <= MaxCells}

\* Era5Downloader(...), file_format one of formats and the resume argument
\* one of resumes
Era5Construct(formats, resumes) ==
  \E fmt \in formats :
    IF lower(fmt) \notin {"grib", "netcdf"}
      THEN ConfigError(Exception("ValueError", "file_format"))
      ELSE \E client_ok \in BOOLEAN :
        IF ~client_ok
          THEN ConfigError(Exception("ValueError", "client"))
          ELSE \E vs \in Era5VarLists, lv \in Era5Levels :
                 LET pl == lv[1]
                     ml == lv[2]
                     grids == Era5Grids(pl, ml)
                 IN
                 /\ grids # {}
                 /\ IF ~validate_variables(vs, pl, ml)
                      THEN ConfigError(Exception("ValueError", "variables"))
                      ELSE \E g \in grids, res \in resumes, dry \in BOOLEAN :
                             Era5Fields(g[1], g[2], vs, pl, ml, res, dry,
                                        fmt)

Era5Init ==
  /\ provider = "era5"
  /\ UNCHANGED <<loaderVars, argv>>
  /\ CanStart
  /\ Era5Construct(FileFormats, BOOLEAN)

\* one call of _download_variables made by the loops of download_data
Era5DownloadData ==
  /\ provider = "era5"
  /\ UNCHANGED <<loaderVars, argv>>
  /\ pc = "loop"
  /\ LET year           == years[loop[1] + 1]
         month          == months[loop[2] + 1]
         level_type     == LevelTypes(pressure_levels, model_levels)[loop[3] + 1]
         checkpoint_idx == checkpoint_idx_map(level_type, pressure_levels,
                                              model_levels)
         year_idx       == Index(years, year)
         month_idx      == Index(months, month)
         ix             == Era5Cell(checkpoint, year_idx, month_idx,
                                    checkpoint_idx)
         unit           == [ix |-> loop, cell |-> ix,
                            key |-> <<year, month, level_type>>]
     IN
     /\ visited' = Append(visited, unit)
     /\ IF variables_to_download(variables, level_type) = <<>>
          THEN \* nothing to download for this level type
               /\ Continue(Era5Dims)
               /\ UNCHANGED <<checkpoint, calls, network, dirVars>>
          ELSE IF ~InBounds(checkpoint, ix)
            THEN /\ Raise(Exception("IndexError", "checkpoint"))
                 /\ UNCHANGED <<checkpoint, calls, network, dirVars>>
          ELSE IF is_done(checkpoint, ix)
            THEN /\ Continue(Era5Dims)
                 /\ UNCHANGED <<checkpoint, calls, network, dirVars>>
            ELSE \E outcome \in Era5Outcomes :
                   LET r == download_variables(dry_run, outcome) IN
                   /\ calls' = Append(calls, Attempt(unit, r.status, TRUE))
                   /\ network' = IF r.retrieve THEN Append(network, unit)
                                               ELSE network
                   /\ outputs' = IF r.wrote
                                   THEN outputs \cup {<<year, month, level_type>>}
                                   ELSE outputs
                   /\ contents' = contents
                   /\ IF r.update
                        THEN /\ checkpoint' = SetCell(checkpoint, ix, r.status)
                             /\ status_pickle' = Some(checkpoint')
                        ELSE UNCHANGED <<checkpoint, status_pickle>>
                   /\ Continue(Era5Dims)
  /\ UNCHANGED <<provider, runs, cfgVars, loaded, first_run, first_calls, failed, peer,
               result>>

\* ------------------------------------------------------------------------
\* Configuration loader (rbc.config.loader, rbc.config.schema)
\* ------------------------------------------------------------------------
\* Python values of a configuration: PyStr, None, and dictionaries, which
\* are PyDict(f) as a value written out and Ref(address) in the heap
PyNone == [none |-> TRUE]
PyDict(f) == [dict |-> f]
Ref(address) == [ref |-> address]
is_dict(v) == "dict" \in DOMAIN v
is_ref(v) == "ref" \in DOMAIN v

\* no loader call yet
NoCall == [op |-> "none"]

RECURSIVE store(_, _), store_items(_, _, _, _)
\* the items of dictionary d still to build, obj the items built so far
store_items(h, d, keys, obj) ==
  IF keys = {} THEN [heap |-> h, val |-> obj]
  ELSE LET k == CHOOSE x \in keys : TRUE
           s == store(h, d[k])
       IN store_items(s.heap, d, keys \ {k}, (k :> s.val) @@ obj)

\* the value v built as Python objects: every dictionary gets an address
store(h, v) ==
  IF ~is_dict(v) THEN [heap |-> h, val |-> v]
  ELSE LET s == store_items(h, v.dict, DOMAIN v.dict, <<>>)
       IN [heap |-> Append(s.heap, s.val), val |-> Ref(Len(s.heap) + 1)]

RECURSIVE value_of(_, _)
\* the value an object denotes, dictionaries followed to their items
value_of(h, v) ==
  IF is_ref(v)
    THEN PyDict([k \in DOMAIN h[v.ref] |-> value_of(h, h[v.ref][k])])
    ELSE v

\* dict.get(k)
get(obj, k) == IF k \in DOMAIN obj THEN obj[k] ELSE PyNone

\* the "none" test of update_config
none_to_None(v) == IF is_str(v) /\ lower(v.str) = "none" THEN PyNone ELSE v

\* obj[k] = v
setitem(h, address, k, v) ==
  [h EXCEPT ![address] = (k :> v) @@ h[address]]

RECURSIVE update_config(_, _, _), update_items(_, _, _, _)
\* the loop of update_config over the items of updates still to apply
update_items(h, updated, updates, keys) ==
  IF keys = {} THEN h
  ELSE LET k == CHOOSE x \in keys : TRUE
           v == none_to_None(h[updates][k])
           old == get(h[updated], k)
       IN
       IF is_ref(v) /\ is_ref(old)
         THEN LET r == update_config(h, old.ref, v.ref)
              IN update_items(setitem(r.heap, updated, k, Ref(r.ret)),
                              updated, updates, keys \ {k})
         ELSE update_items(setitem(h, updated, k, v),
                           updated, updates, keys \ {k})

\* an update_config that writes into base instead of a copy
update_config_in_place(h, base, updates) ==
  [heap |-> update_items(h, base, updates, DOMAIN h[updates]), ret |-> base]

\* update_config(base, updates) on dictionaries given by address: the heap
\* after the call and the address of the returned dictionary
update_config(h, base, updates) ==
  LET updated == Len(h) + 1
      copied  == Append(h, h[base])
  IN [heap |-> update_items(copied, updated, updates, DOMAIN h[updates]),
      ret  |-> updated]

\* SCHEMA_REGISTRY: the fields of the access model of each source's schema
SCHEMA_REGISTRY ==
  [entsoe |-> {"api_key"}, era5 |-> {"api_url", "api_key"}]

\* source names asked for: the registered ones and one without a schema
SourceNames == {"entsoe", "era5", "unknown"}

\* str.strip() on the strings of the model
strip(str) == IF str \in {"", "   "} THEN "" ELSE str

\* any(marker in value for marker in ("YOUR-SECRET", "COMMIT"))
has_marker(str) == str \in {"YOUR-SECRET", "COMMIT", "YOUR-SECRET-TOKEN"}

\* a nested model whose fields are all required strings
valid_fields(v, fields) ==
  /\ is_dict(v)
  /\ \A f \in fields : f \in DOMAIN v.dict /\ is_str(v.dict[f])

\* a validator that rejects empty strings only
check_access_values_empty_only(access) ==
  \A f \in DOMAIN access :
    is_str(access[f]) => strip(access[f].str) # ""

\* AccessValidation.check_access_values: TRUE when no ValueError is raised
check_access_values(access) ==
  \A f \in DOMAIN access :
    is_str(access[f]) => strip(access[f].str) # "" /\ ~has_marker(access[f].str)

\* the validated model: declared fields only, extra keys ignored
model_fields(v, fields) == [f \in fields |-> v.dict[f]]

\* schema.model_validate(cfg) of the schema registered for source
model_validate(source, cfg) ==
  LET d == cfg.dict
      ok == /\ "source" \in DOMAIN d => d["source"] = PyStr(source)
            /\ "paths" \in DOMAIN d
            /\ valid_fields(d["paths"], {"dst_dir_raw"})
            /\ "access" \in DOMAIN d
            /\ valid_fields(d["access"], SCHEMA_REGISTRY[source])
            /\ check_access_values(
                 model_fields(d["access"], SCHEMA_REGISTRY[source]))
  IN IF ~ok
       THEN [raised |-> Some(Exception("ValidationError", source)),
             ret |-> PyNone]
       ELSE [raised |-> None,
             ret |-> PyDict(
               [source |-> PyStr(source),
                paths  |-> PyDict(model_fields(d["paths"], {"dst_dir_raw"})),
                access |-> PyDict(model_fields(d["access"],
                                               SCHEMA_REGISTRY[source]))])]

\* {"source": source, **cfg}
with_source(source, cfg) ==
  PyDict(cfg.dict @@ ("source" :> PyStr(source)))

\* the dictionary handed to the schema: the YAML mapping (or {} for an
\* empty file) under the source key, overrides merged when there are any
merged_config(file, source, overrides) ==
  LET cfg == with_source(source, IF file = PyNone THEN PyDict(<<>>) ELSE file)
  IN IF overrides = PyNone \/ DOMAIN overrides.dict = {}
       THEN cfg
       ELSE LET b == store(<<>>, cfg)
                u == store(b.heap, overrides)
                r == update_config(u.heap, b.val.ref, u.val.ref)
            IN value_of(r.heap, Ref(r.ret))

\* a load_config that looks the schema up before it looks for the file
load_config_registry_first(files, source, overrides) ==
  IF source \notin DOMAIN SCHEMA_REGISTRY
    THEN [raised |-> Some(Exception("ValueError", "Unknown source")),
          ret |-> PyNone]
  ELSE IF source \notin DOMAIN files
    THEN [raised |-> Some(Exception("ValueError", "not found")),
          ret |-> PyNone]
  ELSE model_validate(source, merged_config(files[source], source, overrides))

\* load_config(source, configs_dir, overrides), files the YAML files of
\* configs_dir: the exception raised or the object returned
load_config(files, source, overrides) ==
  IF source \notin DOMAIN files
    THEN [raised |-> Some(Exception("ValueError", "not found")),
          ret |-> PyNone]
  ELSE LET cfg == merged_config(files[source], source, overrides)
       IN IF source \notin DOMAIN SCHEMA_REGISTRY
            THEN [raised |-> Some(Exception("ValueError", "Unknown source")),
                  ret |-> PyNone]
            ELSE model_validate(source, cfg)

\* a mapping from keys to strings
StrDict(f) == PyDict([k \in DOMAIN f |-> PyStr(f[k])])

\* the example configuration of a source, with the given api_key
ExampleConfig(source, api_key) ==
  PyDict([paths  |-> StrDict([dst_dir_raw |-> "/path/raw"]),
          access |-> IF source = "era5"
                       THEN StrDict([api_url |-> "https://cds", api_key |-> api_key])
                       ELSE StrDict([api_key |-> api_key])])

\* api_key strings a file is given: a token, the committed placeholder,
\* the strings of the placeholder tests
ApiKeys == {"token", "YOUR-SECRET-TOKEN", "", "   ", "YOUR-SECRET", "COMMIT"}

\* contents a <source>.yaml file is given: empty, the example with each
\* api_key, a placeholder api_url beside a good api_key, a file without
\* access, a file naming another source
YamlFiles(source) ==
  { PyNone,
    PyDict([paths  |-> StrDict([dst_dir_raw |-> "/path/raw"]),
            access |-> StrDict([api_url |-> "COMMIT", api_key |-> "token"])]),
    PyDict([paths |-> StrDict([dst_dir_raw |-> "/path/raw"])]),
    with_source("era5", ExampleConfig("entsoe", "token")) }
    \cup { ExampleConfig(source, api_key) : api_key \in ApiKeys }

\* configs directories: one source has a file, or two have the example
ConfigsDirs ==
  UNION { { (n :> file) : file \in YamlFiles(n) } : n \in SourceNames } \cup
  { (n :> ExampleConfig(n, "token")) @@ (m :> ExampleConfig(m, "token")) :
      n \in SourceNames, m \in SourceNames } \cup { <<>> }

\* overrides handed to load_config: none, or parsed key=value pairs
Overrides ==
  { PyNone, PyDict(<<>>),
    PyDict([access |-> StrDict([api_key |-> "override"])]),
    PyDict([access |-> StrDict([api_key |-> "COMMIT"])]),
    PyDict([access |-> StrDict([api_key |-> "None"])]),
    PyDict([paths |-> StrDict([dst_dir_raw |-> "override"])]),
    PyDict([access |-> StrDict([api_url |-> "https://cds", api_key |-> "override"])]),
    StrDict([source |-> "override"]) }

\* one call of load_config on the configs directory
LoadConfig ==
  /\ last_call = NoCall
  /\ \E source \in SourceNames, overrides \in Overrides :
       /\ last_call' = [op |-> "load_config", source |-> source,
                        overrides |-> overrides,
                        out |-> load_config(configs, source, overrides)]
       /\ heap' = <<>>
  /\ UNCHANGED <<configs, provider, dirVars, cfgVars, pc, runs, checkpoint,
                 loop, visited, calls, network, loaded, first_run,
                 first_calls, failed, peer, raised, result, argv>>

\* keys of the dictionaries handed to update_config, at every depth
DictKeys == {"access", "paths"}

RECURSIVE DictsOf(_, _), SlotsOf(_, _)
\* the values of one entry that counts n keys with all that is below it
SlotsOf(n, leafs) ==
  (IF n = 1 THEN leafs ELSE {}) \cup { PyDict(d) : d \in DictsOf(n - 1, leafs) }

\* the dictionaries over DictKeys of n keys in all, nested ones included
DictsOf(n, leafs) ==
  UNION { { e1 @@ e2 :
              e1 \in IF i = 0 THEN {<<>>}
                     ELSE { ("access" :> v) : v \in SlotsOf(i, leafs) },
              e2 \in IF n - i = 0 THEN {<<>>}
                     ELSE { ("paths" :> v) : v \in SlotsOf(n - i, leafs) } } :
          i \in 0..n }

\* base dictionaries: YAML values
BaseDicts ==
  UNION { DictsOf(n, {PyStr("token")}) : n \in 0..MaxEntries }

\* updates dictionaries: override strings, one of them spelling none
UpdateDicts ==
  UNION { DictsOf(n, {PyStr("override"), PyStr("None")}) :
            n \in 0..MaxEntries }

\* one call of update_config on two dictionaries built for it; the configs
\* directory plays no part in it
UpdateConfig ==
  /\ last_call = NoCall /\ configs = <<>>
  /\ \E base \in BaseDicts, updates \in UpdateDicts :
       LET b == store(<<>>, PyDict(base))
           u == store(b.heap, PyDict(updates))
           r == update_config(u.heap, b.val.ref, u.val.ref)
       IN
       /\ last_call' = [op |-> "update_config", base |-> b.val.ref,
                        updates |-> u.val.ref, before |-> u.heap,
                        ret |-> r.ret]
       /\ heap' = r.heap
  /\ UNCHANGED <<configs, provider, dirVars, cfgVars, pc, runs, checkpoint,
                 loop, visited, calls, network, loaded, first_run,
                 first_calls, failed, peer, raised, result, argv>>

\* command line strings are sequences of characters
\* str.find(ch): position of the first ch in str, 0 when there is none
find(str, ch) ==
  IF \E i \in 1..Len(str) : str[i] = ch
    THEN CHOOSE i \in 1..Len(str) :
           str[i] = ch /\ \A j \in 1..(i - 1) : str[j] # ch
    ELSE 0

RECURSIVE split(_, _)
\* str.split(sep) for a one-character separator
split(str, sep) ==
  LET i == find(str, sep)
  IN IF i = 0 THEN <<str>>
     ELSE <<SubSeq(str, 1, i - 1)>> \o split(SubSeq(str, i + 1, Len(str)), sep)

\* str.split(sep, 1): cut at the first separator only
split_once(str, sep) ==
  LET i == find(str, sep)
  IN IF i = 0 THEN <<str>>
     ELSE <<SubSeq(str, 1, i - 1), SubSeq(str, i + 1, Len(str))>>

RECURSIVE descend(_, _, _)
\* for k in keys: current = current.setdefault(k, {}); current is a value,
\* the dictionaries among them by address
descend(h, current, keys) ==
  IF keys = <<>> THEN [heap |-> h, current |-> current, raised |-> None]
  ELSE IF ~is_ref(current)
    THEN [heap |-> h, current |-> current,
          raised |-> Some(Exception("AttributeError", "setdefault"))]
  ELSE LET k == Head(keys)
           obj == h[current.ref]
       IN IF k \in DOMAIN obj
            THEN descend(h, obj[k], Tail(keys))
            ELSE LET made == Append(h, <<>>)
                     new  == Ref(Len(made))
                 IN descend(setitem(made, current.ref, k, new), new,
                            Tail(keys))

\* one pass of the loop of parse_key_value_pairs, parsed the address of
\* the dictionary named result
parse_pair(h, parsed, pair) ==
  IF find(pair, "=") = 0
    THEN [heap |-> h,
          raised |-> Some(Exception("ArgumentTypeError", "expected key=value"))]
  ELSE LET kv    == split_once(pair, "=")
           keys  == split(kv[1], ".")
           d     == descend(h, Ref(parsed), SubSeq(keys, 1, Len(keys) - 1))
       IN IF d.raised # None THEN [heap |-> d.heap, raised |-> d.raised]
          ELSE IF ~is_ref(d.current)
            THEN [heap |-> d.heap,
                  raised |-> Some(Exception("TypeError", "item assignment"))]
          ELSE [heap |-> setitem(d.heap, d.current.ref, keys[Len(keys)],
                                 PyStr(kv[2])),
                raised |-> None]

RECURSIVE parse_pairs(_, _, _)
\* the loop of parse_key_value_pairs over the pairs still to parse
parse_pairs(h, parsed, pairs) ==
  IF pairs = <<>> THEN [heap |-> h, raised |-> None]
  ELSE LET r == parse_pair(h, parsed, Head(pairs))
       IN IF r.raised # None THEN r
          ELSE parse_pairs(r.heap, parsed, Tail(pairs))

\* a Python list
PyList(l) == [list |-> l]

\* parse_key_value_pairs(pairs), pairs a list or None: the heap it leaves,
\* the exception it raised or the address of the dictionary it returned
parse_key_value_pairs(pairs) ==
  LET parsed == 1
      h      == <<<<>>>>
  IN IF pairs = PyNone \/ pairs = PyList(<<>>)
       THEN [heap |-> h, raised |-> None, ret |-> parsed]
       ELSE LET r == parse_pairs(h, parsed, pairs.list)
            IN [heap |-> r.heap, raised |-> r.raised, ret |-> parsed]

\* key=value strings of the command line
PairUniverse ==
  { <<"a", "=", "1">>,
    <<"a", ".", "b", "=", "1">>,
    <<"a", ".", "b", "=", "2">>,
    <<"a", ".", "c", "=", "1">>,
    <<"a", ".", "b", ".", "c", "=", "1">>,
    <<"b", "=", "1", "=", "2">>,
    <<"a", ".", "b">> }

RECURSIVE PairLists(_)
\* the lists of n pairs
PairLists(n) ==
  IF n = 0 THEN {<<>>}
  ELSE { <<pair>> \o rest : pair \in PairUniverse, rest \in PairLists(n - 1) }

\* one call of parse_key_value_pairs; the configs directory plays no part
ParseKeyValuePairs ==
  /\ last_call = NoCall /\ configs = <<>>
  /\ \E pairs \in {PyNone} \cup
                  { PyList(l) : l \in UNION { PairLists(n) : n \in 0..MaxPairs } } :
       LET r == parse_key_value_pairs(pairs)
       IN
       /\ last_call' = [op |-> "parse_key_value_pairs", pairs |-> pairs,
                        raised |-> r.raised, ret |-> r.ret]
       /\ heap' = r.heap
  /\ UNCHANGED <<configs, provider, dirVars, cfgVars, pc, runs, checkpoint,
                 loop, visited, calls, network, loaded, first_run,
                 first_calls, failed, peer, raised, result, argv>>

\* ------------------------------------------------------------------------
\* Provider scripts (src/scripts)
\* ------------------------------------------------------------------------
\* SOURCE: the configuration name each script loads
SOURCE(p) ==
  CASE p = "entsoe" -> "entsoe"
    [] p = "era5"   -> "era5"
    [] p = "icon"   -> "icon_dream_global"

\* the checkpoint flags the argument parser of each script knows
script_flags(p) == IF p = "entsoe" THEN {} ELSE {"--resume"}

\* the resume argument main() constructs the downloader with: args.resume
\* in the ERA5 and ICON-DREAM scripts, the constructor's default in the
\* ENTSO-E scripts, which pass none
script_resume(p, flags) ==
  IF p = "entsoe" THEN FALSE ELSE "--resume" \in flags

\* a configs directory with a filled-in file for every script
ScriptConfigs ==
  [n \in {SOURCE(p) : p \in Providers} |-> ExampleConfig(n, "token")]

\* main() of the ENTSO-E scripts
EntsoeMain ==
  /\ provider = "entsoe"
  /\ UNCHANGED loaderVars
  /\ CanStart
  /\ \E flags \in SUBSET script_flags(provider) :
       LET cfg == load_config(configs, SOURCE(provider), PyNone)
       IN
       /\ argv' = flags
       /\ IF cfg.raised # None
            THEN ConfigError(cfg.raised[1])
            ELSE EntsoeConstruct({script_resume(provider, flags)})

\* main() of the ICON-DREAM script
IconMain ==
  /\ provider = "icon"
  /\ UNCHANGED loaderVars
  /\ CanStart
  /\ \E flags \in SUBSET script_flags(provider) :
       LET cfg == load_config(configs, SOURCE(provider), PyNone)
       IN
       /\ argv' = flags
       /\ IF cfg.raised # None
            THEN ConfigError(cfg.raised[1])
            ELSE IconConstruct({script_resume(provider, flags)})

\* main() of the ERA5 script, whose parser admits grib and netcdf only
Era5Main ==
  /\ provider = "era5"
  /\ UNCHANGED loaderVars
  /\ CanStart
  /\ \E flags \in SUBSET script_flags(provider) :
       LET cfg == load_config(configs, SOURCE(provider), PyNone)
       IN
       /\ argv' = flags
       /\ IF cfg.raised # None
            THEN ConfigError(cfg.raised[1])
            ELSE Era5Construct({"grib"}, {script_resume(provider, flags)})

Init ==
  /\ provider \in Providers
  /\ status_pickle = None
  /\ outputs = {}
  /\ pc = "init"
  /\ runs = 0
  /\ years = <<>> /\ months = <<>> /\ bidding_zones = <<>>
  /\ variables = <<>> /\ pressure_levels = None /\ model_levels = None
  /\ dry_run = FALSE /\ resume = FALSE /\ file_format = ""
  /\ checkpoint = NoArray /\ loaded = NoArray
  /\ loop = <<0, 0, 0>> /\ visited = <<>> /\ calls = <<>>
  /\ network = <<>>
  /\ first_run = None /\ first_calls = <<>> /\ failed = None /\ peer = None
  /\ raised = None
  /\ result = NoResult
  /\ configs = <<>> /\ heap = <<>> /\ last_call = NoCall /\ argv = {}
  /\ contents = <<>>

Next ==
  \/ EntsoeInit
  \/ EntsoeDumpAllToCsv
  \/ IconInit
  \/ IconDownloadData
  \/ Era5Init
  \/ Era5DownloadData

Spec == Init /\ [][Next]_vars

\* the configuration loader on its own: a configs directory, then calls
InitConfig ==
  /\ provider = "entsoe"
  /\ status_pickle = None
  /\ outputs = {}
  /\ pc = "init"
  /\ runs = 0
  /\ years = <<>> /\ months = <<>> /\ bidding_zones = <<>>
  /\ variables = <<>> /\ pressure_levels = None /\ model_levels = None
  /\ dry_run = FALSE /\ resume = FALSE /\ file_format = ""
  /\ checkpoint = NoArray /\ loaded = NoArray
  /\ loop = <<0, 0, 0>> /\ visited = <<>> /\ calls = <<>>
  /\ network = <<>>
  /\ first_run = None /\ first_calls = <<>> /\ failed = None /\ peer = None
  /\ raised = None
  /\ result = NoResult
  /\ contents = <<>>
  /\ configs \in ConfigsDirs /\ heap = <<>> /\ last_call = NoCall /\ argv = {}

NextConfig ==
  \/ LoadConfig
  \/ UpdateConfig
  \/ ParseKeyValuePairs

SpecConfig == InitConfig /\ [][NextConfig]_vars

\* every process is a run of the provider's script
InitScripts ==
  /\ provider \in Providers
  /\ status_pickle = None
  /\ outputs = {}
  /\ pc = "init"
  /\ runs = 0
  /\ years = <<>> /\ months = <<>> /\ bidding_zones = <<>>
  /\ variables = <<>> /\ pressure_levels = None /\ model_levels = None
  /\ dry_run = FALSE /\ resume = FALSE /\ file_format = ""
  /\ checkpoint = NoArray /\ loaded = NoArray
  /\ loop = <<0, 0, 0>> /\ visited = <<>> /\ calls = <<>>
  /\ network = <<>>
  /\ first_run = None /\ first_calls = <<>> /\ failed = None /\ peer = None
  /\ raised = None
  /\ result = NoResult
  /\ contents = <<>>
  /\ configs = ScriptConfigs /\ heap = <<>> /\ last_call = NoCall
  /\ argv = {}

\* the ICON-DREAM script never gets as far as download_data
NextScripts ==
  \/ EntsoeMain
  \/ EntsoeDumpAllToCsv
  \/ IconMain
  \/ Era5Main
  \/ Era5DownloadData

SpecScripts == InitScripts /\ [][NextScripts]_vars

\* ------------------------------------------------------------------------
\* Properties
\* ------------------------------------------------------------------------
\* the checkpoint cell of the unit the loop is at
CurrentIx ==
  CASE provider = "entsoe" -> <<loop[1], loop[2]>>
    [] provider = "icon"   -> loop
    [] provider = "era5"   ->
         Era5Cell(checkpoint, Index(years, years[loop[1] + 1]),
                  Index(months, months[loop[2] + 1]),
                  checkpoint_idx_map(
                    LevelTypes(pressure_levels, model_levels)[loop[3] + 1],
                    pressure_levels, model_levels))

AllOnes(arr) == arr # NoArray /\ \A ix \in DOMAIN arr.data : arr.data[ix] = 1

Started == pc \in {"loop", "done", "error"}

\* C1: a unit whose cell is nonzero when the loop reaches it is not handed
\* to the unit downloader, no provider request is sent for it and the
\* checkpoint stays as it is, in memory and on disk; a run that resumed from
\* an all-ones checkpoint makes no download and keeps the loaded checkpoint.
C1_DoneUnitsSkipped ==
  /\ [][(/\ pc = "loop"
         /\ InBounds(checkpoint, CurrentIx)
         /\ checkpoint.data[CurrentIx] # 0)
        => (/\ calls' = calls
            /\ network' = network
            /\ checkpoint' = checkpoint
            /\ status_pickle' = status_pickle)]_vars
  /\ [](Started /\ resume /\ AllOnes(loaded)
        => calls = <<>> /\ network = <<>> /\ checkpoint = loaded)

C1_Witness ==
  /\ pc = "done" /\ resume /\ AllOnes(loaded)
  /\ Len(visited) >= 2 /\ calls = <<>>

Last(seq) == seq[Len(seq)]

\* a unit downloader was called in this step and returned a status
Attempted ==
  pc = "loop" /\ Len(calls') = Len(calls) + 1 /\ Last(calls').returned

\* C2 (as claimed): a run with resume=true that follows a completed run with
\* resume=true on the same grid performs no unit download at all, whatever
\* the first run's outcome was.
C2_RerunDownloadsNothing == first_run # None => calls = <<>>

\* C2 (amended): such a second run downloads only units whose cell the first
\* run left at 0; every unit the first run left at 1 is skipped.
C2_RerunDownloadsOnlyUnfinished ==
  first_run # None =>
    \A n \in 1..Len(calls) :
      /\ InBounds(first_run[1], calls[n].cell)
      /\ first_run[1].data[calls[n].cell] = 0

C2_Witness ==
  /\ first_run # None /\ pc = "done"
  /\ Len(calls) = 1 /\ Len(visited) >= 2
  /\ \E ix \in DOMAIN first_run[1].data : first_run[1].data[ix] = 1

Recorded(attempt) ==
  CASE provider = "entsoe" -> TRUE
    [] provider = "icon"   -> attempt.status = 1
    [] provider = "era5"   -> ~dry_run

C4_Era5DryRunFrame ==
  /\ [][provider = "era5" /\ dry_run /\ pc = "loop" =>
          /\ network' = network
          /\ checkpoint' = checkpoint
          /\ status_pickle' = status_pickle
          /\ (calls' # calls =>
                Last(calls').returned /\ Last(calls').status = 1)]_vars
  /\ [](provider = "era5" /\ dry_run /\ Started =>
          network = <<>> /\ checkpoint = loaded)

C4_Witness ==
  /\ provider = "era5" /\ dry_run /\ pc = "done"
  /\ Len(calls) >= 2 /\ network = <<>>
  /\ \A ix \in DOMAIN checkpoint.data : checkpoint.data[ix] = 0

\* C5: an ICON-DREAM run with dry_run=true sends no download request and
\* leaves the checkpoint as it was, in memory and on disk.
C5_IconDryRunFrame ==
  [][provider = "icon" /\ dry_run /\ pc = "loop" =>
       /\ network' = network
       /\ checkpoint' = checkpoint
       /\ status_pickle' = status_pickle]_vars

\* the shape a fresh checkpoint of the current grid has
GridShape ==
  CASE provider = "entsoe" -> <<Len(years), Len(bidding_zones)>>
    [] provider = "icon"   -> <<Len(years), Len(months), Len(variables)>>
    [] provider = "era5"   ->
         LET L == 1 + (IF pressure_levels # None THEN 1 ELSE 0)
                    + (IF model_levels # None THEN 1 ELSE 0)
         IN IF L > 1 THEN <<Len(years), Len(months), L>>
                     ELSE <<Len(years), Len(months)>>

\* the constructor has just returned; the directory is as it found it
JustConstructed == pc = "loop" /\ visited = <<>>

\* C6: the constructor loads the checkpoint verbatim from status.pickle
\* exactly when resume is true and the file exists; otherwise the checkpoint
\* is an all-zero matrix of the grid's shape, whatever an older file holds.
C6_CheckpointCreation ==
  JustConstructed =>
    /\ checkpoint = loaded
    /\ (resume /\ status_pickle # None) => checkpoint = status_pickle[1]
    /\ ~(resume /\ status_pickle # None) =>
         /\ checkpoint.shape = GridShape
         /\ DOMAIN checkpoint.data = Indices(GridShape)
         /\ \A ix \in DOMAIN checkpoint.data : checkpoint.data[ix] = 0

C6_Witness ==
  /\ JustConstructed /\ ~resume
  /\ status_pickle # None /\ AllOnes(status_pickle[1])
  /\ status_pickle[1].shape = checkpoint.shape
  /\ \A ix \in DOMAIN checkpoint.data : checkpoint.data[ix] = 0

\* the checkpoint of this run was created fresh by the constructor
Fresh == Started /\ (~resume \/ (JustConstructed /\ status_pickle = None))

\* C7: a fresh ERA5 checkpoint has shape (Y, M, L) when L > 1 level types
\* are active and (Y, M) when one is, where L counts single (always),
\* pressure (pressure_levels not None) and model (model_levels not None).
C7_Era5FreshShape ==
  provider = "era5" /\ Fresh =>
    LET L == Cardinality({"single"}
               \cup (IF pressure_levels # None THEN {"pressure"} ELSE {})
               \cup (IF model_levels # None THEN {"model"} ELSE {}))
    IN /\ L > 1 => checkpoint.shape = <<Len(years), Len(months), L>>
       /\ L = 1 => checkpoint.shape = <<Len(years), Len(months)>>
       /\ DOMAIN checkpoint.data = Indices(checkpoint.shape)

C7_Witness ==
  /\ provider = "era5" /\ Fresh
  /\ pressure_levels # None /\ model_levels # None
  /\ checkpoint.shape = <<1, 1, 3>>

\* C8: in every state of a constructed downloader the shape of the
\* checkpoint equals the cardinalities of the current grid dimensions.
C8_ShapeMatchesGrid == Started => checkpoint.shape = GridShape

Values(arr) == {arr.data[ix] : ix \in DOMAIN arr.data}

\* C9: every cell of the checkpoint, in memory and in the file, is 0 or 1;
\* a cell becomes 1 only in a step in which the unit downloader returned
\* status 1 for that cell's unit, and a cell the loop writes otherwise is 0.
C9_CellValues ==
  /\ [](/\ Values(checkpoint) \subseteq {0, 1}
        /\ status_pickle # None => Values(status_pickle[1]) \subseteq {0, 1})
  /\ [][pc = "loop" =>
          \A ix \in DOMAIN checkpoint.data :
            /\ checkpoint'.data[ix] # checkpoint.data[ix] =>
                 /\ Attempted
                 /\ Last(calls').cell = ix
                 /\ checkpoint'.data[ix] = Last(calls').status
            /\ (Attempted /\ Last(calls').cell = ix
                  /\ Last(calls').status = 0) => checkpoint'.data[ix] = 0]_vars

C9_Witness ==
  /\ runs = 2 /\ resume /\ pc = "done"
  /\ status_pickle = Some(checkpoint)
  /\ \E a, b \in DOMAIN checkpoint.data :
       /\ checkpoint.data[a] = 1 /\ checkpoint.data[b] = 0
       /\ \E n \in 1..Len(calls) : calls[n].cell = b /\ calls[n].status = 0

\* trip counts of the three nested loops of the current downloader
GridDims ==
  CASE provider = "entsoe" -> <<Len(years), Len(bidding_zones), 1>>
    [] provider = "icon"   -> <<Len(years), Len(months), Len(variables)>>
    [] provider = "era5"   ->
         <<Len(years), Len(months),
           1 + (IF pressure_levels # None THEN 1 ELSE 0)
             + (IF model_levels # None THEN 1 ELSE 0)>>

\* position of a coordinate in the nested order: first dimension outermost
Rank(ix, dims) == (ix[1] * dims[2] + ix[2]) * dims[3] + ix[3]

\* the keys of the unit at a coordinate
KeysAt(ix) ==
  CASE provider = "entsoe" -> <<years[ix[1] + 1], bidding_zones[ix[2] + 1]>>
    [] provider = "icon"   -> <<years[ix[1] + 1], months[ix[2] + 1],
                                variables[ix[3] + 1]>>
    [] provider = "era5"   ->
         <<years[ix[1] + 1], months[ix[2] + 1],
           (<<"single">>
              \o (IF pressure_levels # None THEN <<"pressure">> ELSE <<>>)
              \o (IF model_levels # None THEN <<"model">> ELSE <<>>))[ix[3] + 1]>>

\* C10: a run visits the coordinates of the grid in the nested order, year
\* outermost and variable or level type innermost, each at most once; a run
\* that returns has visited every coordinate exactly once; the order is a
\* function of the configured sequences alone.
C10_NestedOrder ==
  Started =>
    /\ \A n \in 1..Len(visited) :
         /\ Rank(visited[n].ix, GridDims) = n - 1
         /\ \A d \in 1..3 : visited[n].ix[d] \in 0..(GridDims[d] - 1)
         /\ visited[n].key = KeysAt(visited[n].ix)
    /\ pc = "done" => Len(visited) = GridDims[1] * GridDims[2] * GridDims[3]

C10_Witness ==
  /\ provider = "icon" /\ pc = "done"
  /\ GridDims = <<2, 1, 2>>
  /\ Len(visited) = 4
  /\ visited[2].key = <<2020, "01", "U">>
  /\ visited[3].key = <<2021, "01", "T">>

\* C11: within one run the unit downloader is called at most once per unit;
\* after a call that returned status 0 the loop goes on to the next unit of
\* the nested order (or ends after the last one) without calling the same
\* unit again.
C11_AtMostOncePerUnit ==
  /\ [](\A m, n \in 1..Len(calls) : m # n => calls[m].ix # calls[n].ix)
  /\ [][(Attempted /\ Last(calls').status = 0) =>
          /\ pc' \in {"loop", "done"}
          /\ pc' = "loop" => Rank(loop', GridDims) = Rank(loop, GridDims) + 1
          /\ pc' = "done" =>
                Rank(loop, GridDims) + 1 = GridDims[1] * GridDims[2] * GridDims[3]]_vars

C11_Witness ==
  /\ pc = "done" /\ Len(calls) >= 3
  /\ calls[1].status = 0 /\ calls[2].status = 1 /\ calls[3].status = 0
  /\ checkpoint.data[calls[1].cell] = 0

\* the checkpoint cell of the unit at a loop position
CellOf(ix) ==
  CASE provider = "entsoe" -> <<ix[1], ix[2]>>
    [] provider = "icon"   -> ix
    [] provider = "era5"   ->
         Era5Cell(checkpoint, ix[1], ix[2],
                  checkpoint_idx_map(KeysAt(ix)[3], pressure_levels,
                                     model_levels))

\* the loop positions of the current grid
Units == Indices(GridDims)

\* the unit downloader was called for the unit in this run
Called(ix) == \E n \in 1..Len(calls) : calls[n].ix = ix

\* the status of the unit that the run this run repeats left behind
Persisted(ix) ==
  IF InBounds(first_run[1], CellOf(ix)) THEN first_run[1].data[CellOf(ix)]
                                        ELSE -1

\* this run repeats, with resume=true and the same grid, a completed run in
\* which some unit returned status 0
RetryRun ==
  /\ first_run # None
  /\ \E n \in 1..Len(first_calls) : first_calls[n].status = 0

\* C12: a completed run that repeats, with resume=true and the same grid, a
\* run in which some units returned status 0 has called the unit downloader
\* for exactly the units whose persisted status was 0, and for no unit whose
\* persisted status was 1.
C12_RerunRetriesExactlyZeros ==
  (RetryRun /\ pc = "done") =>
    \A ix \in Units : Called(ix) <=> Persisted(ix) = 0

\* C13: when query_api raises ServiceUnavailableError in the ENTSO-E run,
\* dump_to_csv raises ValueError, which leaves dump_all_to_csv: the process
\* ends with that error, nothing is recorded for the unit, and no later unit
\* is visited or attempted in that run.
C13_UnavailableIsFatal ==
  /\ [][(provider = "entsoe" /\ pc = "loop" /\ calls' # calls
            /\ result'.kind = "unavailable") =>
          /\ pc' = "error"
          /\ raised' = Some(Exception("ValueError", "unavailable"))
          /\ checkpoint' = checkpoint /\ status_pickle' = status_pickle]_vars
  /\ [][pc = "error" =>
          /\ runs' = runs + 1
          /\ visited' = <<>> /\ calls' = <<>>]_vars
  /\ [](pc = "error" /\ raised = Some(Exception("ValueError", "unavailable"))
          => /\ ~Last(calls).returned
             /\ Last(visited).ix = Last(calls).ix)

C13_Witness ==
  /\ provider = "entsoe" /\ pc = "error"
  /\ raised = Some(Exception("ValueError", "unavailable"))
  /\ Len(calls) = 2 /\ calls[1].returned /\ ~calls[2].returned
  /\ Len(visited) = 2
  /\ GridDims[1] * GridDims[2] > 2

\* the output file of the unit the loop is at
CurrentFile == KeysAt(loop)

\* a provider request of the ICON-DREAM or ERA5 unit downloader was sent in
\* this step and failed: the unit's file is not there afterwards
RequestFailed ==
  /\ provider \in {"icon", "era5"} /\ pc = "loop"
  /\ network' # network
  /\ CurrentFile \notin outputs'

\* C14: in the ERA5 and ICON-DREAM runs an exception of a unit's network
\* call is caught in the unit downloader: the call returns status 0, the
\* unit's cell is 0 afterwards, every other cell is unchanged, and the loop
\* goes on to the next unit; no such exception ends a run.
C14_UnitErrorsDowngraded ==
  /\ [][RequestFailed =>
          /\ Len(calls') = Len(calls) + 1
          /\ Last(calls').returned /\ Last(calls').status = 0
          /\ Last(calls').ix = loop
          /\ checkpoint'.data[CurrentIx] = 0
          /\ \A ix \in DOMAIN checkpoint.data :
                ix # CurrentIx => checkpoint'.data[ix] = checkpoint.data[ix]
          /\ raised' = None
          /\ pc' \in {"loop", "done"}
          /\ pc' = "loop" => Rank(loop', GridDims) = Rank(loop, GridDims) + 1]_vars
  /\ [](provider \in {"icon", "era5"} /\ pc = "error"
          => raised = Some(Exception("IndexError", "checkpoint")))

C14_Witness ==
  /\ provider = "era5" /\ pc = "done"
  /\ Len(calls) = 3
  /\ calls[1].status = 1 /\ calls[2].status = 0 /\ calls[3].status = 1
  /\ checkpoint.data[calls[1].cell] = 1
  /\ checkpoint.data[calls[2].cell] = 0
  /\ checkpoint.data[calls[3].cell] = 1
  /\ KeysAt(calls[2].ix) \notin outputs

\* C15: whenever the ICON-DREAM unit downloader returns status 0 the unit's
\* output file is not in the output directory afterwards, also when the
\* download failed after the file had been opened for writing; a later call
\* for the unit therefore sends the request again.
C15_PartialFileRemoved ==
  /\ [][(provider = "icon" /\ Attempted /\ Last(calls').status = 0)
          => CurrentFile \notin outputs']_vars
  /\ [][(provider = "icon" /\ Attempted /\ ~dry_run
            /\ \E n \in 1..Len(first_calls) :
                  first_calls[n].ix = loop /\ first_calls[n].status = 0)
          => /\ Len(network') = Len(network) + 1
             /\ Last(network').ix = loop]_vars

C15_Witness ==
  /\ provider = "icon" /\ first_run # None /\ pc = "done"
  /\ \E n \in 1..Len(first_calls) :
       /\ first_calls[n].status = 0
       /\ \E m \in 1..Len(calls) :
            /\ calls[m].ix = first_calls[n].ix /\ calls[m].status = 0
            /\ KeysAt(calls[m].ix) \notin outputs
            /\ \E k \in 1..Len(network) : network[k].ix = calls[m].ix

\* the CSV file of the ENTSO-E unit the loop is at
EntsoeFile == <<bidding_zones[loop[2] + 1], years[loop[1] + 1]>>

\* the ENTSO-E unit downloader was called in this step
EntsoeCall == provider = "entsoe" /\ pc = "loop" /\ calls' # calls

\* a relevant key that no record of the result carries
KeyMissing(records) ==
  \E k \in DOMAIN RELEVANT_RECORD_KEYS :
    \A i \in 1..Len(records) : k \notin DOMAIN records[i]

\* C16: dump_to_csv returns 1 for an empty query result, writing no file,
\* and whenever it wrote the records to the CSV file; it returns 0, writing
\* nothing, when query_api returned the unfilled request object and when a
\* relevant key is in none of the records; dump_all_to_csv stores the
\* returned value in the unit's cell and in no other cell.
C16_EntsoeUnitStatus ==
  [][EntsoeCall =>
       LET call == Last(calls') IN
       /\ (result'.kind = "records" /\ result'.records = <<>>) =>
             /\ call.returned /\ call.status = 1
             /\ outputs' = outputs /\ contents' = contents
       /\ (result'.kind = "records" /\ result'.records # <<>>
              /\ ~KeyMissing(result'.records) /\ call.returned) =>
             /\ call.status = 1
             /\ EntsoeFile \in outputs'
       /\ (outputs' # outputs \/ contents' # contents) =>
             call.returned /\ call.status = 1
       /\ result'.kind = "request" =>
             /\ call.returned /\ call.status = 0
             /\ outputs' = outputs /\ contents' = contents
       /\ (result'.kind = "records" /\ result'.records # <<>>
              /\ KeyMissing(result'.records)) =>
             /\ call.returned /\ call.status = 0
             /\ outputs' = outputs /\ contents' = contents
       /\ call.returned =>
             /\ checkpoint'.data[CurrentIx] = call.status
             /\ \A ix \in DOMAIN checkpoint.data :
                  ix # CurrentIx => checkpoint'.data[ix] = checkpoint.data[ix]]_vars

C16_Witness ==
  /\ provider = "entsoe" /\ runs = 1 /\ pc = "done"
  /\ \E l, m, n \in 1..Len(calls) :
       /\ calls[l].status = 1 /\ <<calls[l].key[2], calls[l].key[1]>> \notin outputs
       /\ calls[m].status = 0
       /\ calls[n].status = 1 /\ <<calls[n].key[2], calls[n].key[1]>> \in outputs
       /\ checkpoint.data[calls[l].cell] = 1
       /\ checkpoint.data[calls[m].cell] = 0
       /\ checkpoint.data[calls[n].cell] = 1

\* C17: a fresh ENTSO-E downloader with years=[2020] and one supported zone
\* whose provider returns records that all carry the relevant keys writes
\* <zone>/<year>.csv with one row per record of a mapped PSR code, the code
\* replaced by its name (B01 by Biomass) and the other records dropped;
\* the unit returns status 1 and cell (0,0) becomes 1 in memory and on disk.
C17_EntsoeEndToEnd ==
  [][(/\ EntsoeCall /\ ~resume
      /\ years = <<PyInt(FirstYear)>> /\ Len(bidding_zones) = 1
      /\ result'.kind = "records" /\ result'.records # <<>>
      /\ \A i \in 1..Len(result'.records) :
           DOMAIN RELEVANT_RECORD_KEYS \subseteq DOMAIN result'.records[i])
     =>
      LET recs == result'.records
          file == <<bidding_zones[1], years[1]>>
      IN
      /\ Last(calls').returned /\ Last(calls').status = 1
      /\ file \in outputs' /\ file \in DOMAIN contents'
      /\ \A i \in 1..Len(recs) :
           recs[i][PsrTypeKey] \in DOMAIN PSRTYPE_MAPPINGS <=>
             \E n \in 1..Len(contents'[file]) :
               /\ contents'[file][n].index = i - 1
               /\ contents'[file][n].cells["production_type"]
                    = Some(PSRTYPE_MAPPINGS[recs[i][PsrTypeKey]])
      /\ Len(contents'[file])
           = Cardinality({i \in 1..Len(recs) :
                            recs[i][PsrTypeKey] \in DOMAIN PSRTYPE_MAPPINGS})
      /\ checkpoint'.data[<<0, 0>>] = 1
      /\ status_pickle' = Some(checkpoint')]_vars

\* C18: a constructor given an unsupported ENTSO-E bidding zone, an ERA5
\* file format that is neither grib nor netcdf, an ERA5 variable of none of
\* the variable sets, or an ICON-DREAM variable that is not available raises
\* ValueError: no downloader with such a configuration exists, and the
\* process that raised has no checkpoint, has made no download call and has
\* left the checkpoint file and the output files as they were.
C18_ConfigErrorsFatal ==
  /\ [](Started =>
          /\ provider = "entsoe" => Range(bidding_zones) \subseteq Range(mappings)
          /\ provider = "icon" => Range(variables) \subseteq available_variables
          /\ provider = "era5" =>
                /\ file_format \in {"grib", "netcdf"}
                /\ Range(variables) \subseteq
                     ALL_SINGLE_LEVEL_VARIABLES \cup ALL_PRESSURE_LEVEL_VARIABLES
                       \cup ALL_MODEL_LEVEL_VARIABLES)
  /\ [](pc = "config_error" =>
          /\ raised # None /\ raised[1].class = "ValueError"
          /\ checkpoint = NoArray
          /\ calls = <<>> /\ network = <<>> /\ visited = <<>>)
  /\ [][pc' = "config_error" =>
          /\ status_pickle' = status_pickle
          /\ outputs' = outputs /\ contents' = contents]_vars

C18_Witness ==
  /\ provider = "era5" /\ pc = "config_error" /\ runs = 2
  /\ raised = Some(Exception("ValueError", "variables"))
  /\ status_pickle # None /\ AllOnes(status_pickle[1])
  /\ outputs # {}

\* the override given for api_key, when there is one
ApiKeyOverride(overrides) ==
  IF overrides # PyNone /\ "access" \in DOMAIN overrides.dict
       /\ "api_key" \in DOMAIN overrides.dict["access"].dict
    THEN Some(overrides.dict["access"].dict["api_key"].str)
    ELSE None

\* C19: load_config raises ValueError (not found) when the configs
\* directory has no <source>.yaml, whether or not the source is registered;
\* with the file there it raises ValueError (Unknown source) when the
\* source is no key of SCHEMA_REGISTRY; otherwise it hands the configuration
\* to the schema, and the object returned has the requested source name.
\* Overrides are merged before the validation: an api_key override is the
\* api_key of the returned object, and a placeholder given as override is
\* rejected by the validation.
C19_LoadConfig ==
  last_call.op = "load_config" =>
    LET source == last_call.source
        out    == last_call.out
        key    == ApiKeyOverride(last_call.overrides)
    IN
    /\ source \notin DOMAIN configs =>
         out.raised = Some(Exception("ValueError", "not found"))
    /\ (source \in DOMAIN configs /\ source \notin DOMAIN SCHEMA_REGISTRY) =>
         out.raised = Some(Exception("ValueError", "Unknown source"))
    /\ (source \in DOMAIN configs /\ source \in DOMAIN SCHEMA_REGISTRY) =>
         /\ out.raised # None => out.raised[1].class = "ValidationError"
         /\ out.raised = None =>
              /\ out.ret.dict["source"] = PyStr(source)
              /\ key # None =>
                   out.ret.dict["access"].dict["api_key"] = PyStr(key[1])
         /\ (key # None /\ has_marker(key[1])) => out.raised # None

C19_Witness ==
  /\ last_call.op = "load_config"
  /\ last_call.source = "entsoe"
  /\ configs = ("entsoe" :> ExampleConfig("entsoe", "YOUR-SECRET-TOKEN"))
  /\ ApiKeyOverride(last_call.overrides) = Some("override")
  /\ last_call.out.raised = None
  /\ last_call.out.ret.dict["source"] = PyStr("entsoe")

\* key paths into the dictionaries of a call
KeyPaths == UNION { [1..n -> DictKeys] : n \in 1..MaxEntries }

RECURSIVE at(_, _)
\* the value found in v by following path, or None
at(v, path) ==
  IF path = <<>> THEN Some(v)
  ELSE IF is_dict(v) /\ Head(path) \in DOMAIN v.dict
    THEN at(v.dict[Head(path)], Tail(path))
    ELSE None

\* a value that is no dictionary is found
is_leaf(found) == found # None /\ ~is_dict(found[1])

\* updates has the key at path, or a leaf on the way to it
Named(updates, path) ==
  \E i \in 1..Len(path) :
    LET found == at(updates, SubSeq(path, 1, i))
    IN found # None /\ (i = Len(path) \/ ~is_dict(found[1]))

\* the three dictionaries of the last update_config call, as values
BaseValue == value_of(last_call.before, Ref(last_call.base))
UpdatesValue == value_of(last_call.before, Ref(last_call.updates))
Returned == value_of(heap, Ref(last_call.ret))

\* base keys that updates does not name keep their value, and no
\* dictionary that existed before the call has changed
MergeFrame ==
  /\ \A path \in KeyPaths :
       (at(BaseValue, path) # None /\ ~Named(UpdatesValue, path)) =>
         at(Returned, path) = at(BaseValue, path)
  /\ \A address \in 1..Len(last_call.before) :
       heap[address] = last_call.before[address]

\* C20 as stated: the dictionary update_config returns has the override
\* value at every leaf of updates and the base value at every base key that
\* updates does not name, siblings in a partly overridden nested dictionary
\* included, and base is not mutated at any depth.
C20_RecursiveMerge ==
  last_call.op = "update_config" =>
    /\ \A path \in KeyPaths :
         is_leaf(at(UpdatesValue, path)) =>
           at(Returned, path) = at(UpdatesValue, path)
    /\ MergeFrame

\* every key above the last one of path holds a dictionary in base
ParentsInBase(path) ==
  \A i \in 1..(Len(path) - 1) :
    LET found == at(BaseValue, SubSeq(path, 1, i))
    IN found # None /\ is_dict(found[1])

\* C20 amended: as C20, but an override string that spells none in any
\* letter case gives None at its leaf when the keys above the leaf hold
\* dictionaries in base; under a key that base lacks or holds as a leaf the
\* override dictionary is taken as it is, the string included.
C20_RecursiveMergeNone ==
  last_call.op = "update_config" =>
    /\ \A path \in KeyPaths :
         is_leaf(at(UpdatesValue, path)) =>
           at(Returned, path) =
             Some(IF ParentsInBase(path)
                    THEN none_to_None(at(UpdatesValue, path)[1])
                    ELSE at(UpdatesValue, path)[1])
    /\ MergeFrame

C20_Witness ==
  /\ last_call.op = "update_config"
  /\ BaseValue = PyDict("access" :> PyDict([access |-> PyStr("token"),
                                             paths  |-> PyStr("token")]))
  /\ UpdatesValue = PyDict("access" :> PyDict("access" :> PyStr("override")))
  /\ Returned = PyDict("access" :> PyDict([access |-> PyStr("override"),
                                            paths  |-> PyStr("token")]))
  /\ value_of(heap, Ref(last_call.base)) = BaseValue

\* an override leaf that spells none in some letter case
SpellsNone(found) ==
  is_leaf(found) /\ is_str(found[1]) /\ lower(found[1].str) = "none"

\* C21: the dictionary update_config returns has None at every leaf of
\* updates whose value is a string spelling none in any letter case, at
\* every depth, whether or not base has the keys above the leaf.
C21_NoneLeavesAbsent ==
  last_call.op = "update_config" =>
    \A path \in KeyPaths :
      SpellsNone(at(UpdatesValue, path)) => at(Returned, path) = Some(PyNone)

\* the pairs of the last parse_key_value_pairs call, [] for a missing list
ParsedPairs ==
  IF last_call.pairs = PyNone THEN <<>> ELSE last_call.pairs.list

\* the text of a pair before its first "=", and the text after it
KeyText(pair) == SubSeq(pair, 1, find(pair, "=") - 1)
ValueText(pair) == SubSeq(pair, find(pair, "=") + 1, Len(pair))

\* C22: parse_key_value_pairs returns {} for an empty or missing list and
\* raises ArgumentTypeError when a pair has no "="; otherwise it returns a
\* dictionary in which, for every pair, the path made of the dot-separated
\* parts of the text before the first "=" holds the text after it as a
\* string, the last pair winning among pairs of the same key.
C22_ParseKeyValuePairs ==
  last_call.op = "parse_key_value_pairs" =>
    LET pairs  == ParsedPairs
        parsed == value_of(heap, Ref(last_call.ret))
    IN
    /\ pairs = <<>> => last_call.raised = None /\ parsed = PyDict(<<>>)
    /\ (\E i \in 1..Len(pairs) : find(pairs[i], "=") = 0) =>
         /\ last_call.raised # None
         /\ last_call.raised[1].class = "ArgumentTypeError"
    /\ (\A i \in 1..Len(pairs) : find(pairs[i], "=") # 0) =>
         /\ last_call.raised = None
         /\ \A i \in 1..Len(pairs) :
              (\A j \in (i + 1)..Len(pairs) :
                 KeyText(pairs[j]) # KeyText(pairs[i])) =>
                at(parsed, split(KeyText(pairs[i]), ".")) =
                  Some(PyStr(ValueText(pairs[i])))

\* a provider script has just started a process
ScriptStarts == runs' = runs + 1

\* C23: a provider script run with every checkpoint flag its argument
\* parser knows, in a directory that holds a checkpoint file, constructs its
\* downloader with resume set and the checkpoint read from that file, not
\* with zeros, whichever provider it is.
C23_ScriptsResume ==
  [][(/\ ScriptStarts
      /\ argv' = script_flags(provider)
      /\ status_pickle # None
      /\ pc' = "loop")
     => resume' /\ loaded' = status_pickle[1]]_vars

\* the configuration the last load_config call handed to the schema
Merged ==
  merged_config(configs[last_call.source], last_call.source,
                last_call.overrides)

\* the last load_config call validated a configuration that is in order
\* but for the strings of its access fields
ValidatedAccess ==
  /\ last_call.op = "load_config"
  /\ last_call.source \in DOMAIN configs
  /\ last_call.source \in DOMAIN SCHEMA_REGISTRY
  /\ Merged.dict["source"] = PyStr(last_call.source)
  /\ "paths" \in DOMAIN Merged.dict
  /\ valid_fields(Merged.dict["paths"], {"dst_dir_raw"})
  /\ "access" \in DOMAIN Merged.dict
  /\ valid_fields(Merged.dict["access"], SCHEMA_REGISTRY[last_call.source])

\* access strings that are empty, blank or carry a placeholder marker
BadAccessStrings == {"", "   ", "YOUR-SECRET", "COMMIT", "YOUR-SECRET-TOKEN"}

AllSucceeded ==
  \A n \in 1..Len(calls) : calls[n].returned /\ calls[n].status = 1

\* C25: when a run of the download routine has gone through the whole grid
\* and every unit downloader call of the run returned status 1, the
\* checkpoint file exists and every cell of it is 1, for each of the three
\* downloaders and whatever variables and level types were chosen.
C25_FullRunMarksAll ==
  (pc = "done" /\ AllSucceeded) =>
    (status_pickle # None /\ AllOnes(status_pickle[1]))

\* the cell that _download_variables tests and sets for the ERA5 unit at a
\* loop position
Era5CellOf(ix) ==
  Era5Cell(checkpoint, Index(years, years[ix[1] + 1]),
           Index(months, months[ix[2] + 1]),
           checkpoint_idx_map(KeysAt(ix)[3], pressure_levels, model_levels))

\* C26: in every state of an ERA5 run, also one that loaded its checkpoint
\* from a file, each (year, month, level type) unit of the grid has a
\* checkpoint cell inside the matrix that no other unit has, the level
\* types are numbered single = 0, then pressure, then model, without gaps,
\* and a download attempt writes the cell of its own unit only.
C26_Era5OwnCells ==
  /\ [](provider = "era5" /\ Started =>
          /\ \A ix \in Units : InBounds(checkpoint, Era5CellOf(ix))
          /\ \A ix, jx \in Units : ix # jx => Era5CellOf(ix) # Era5CellOf(jx)
          /\ \A k \in 1..GridDims[3] :
                checkpoint_idx_map(
                  LevelTypes(pressure_levels, model_levels)[k],
                  pressure_levels, model_levels) = k - 1)
  /\ [][(provider = "era5" /\ pc = "loop") =>
          \A ix \in Units :
            (InBounds(checkpoint, Era5CellOf(ix)) /\ ix # loop) =>
               checkpoint'.data[Era5CellOf(ix)] =
                 checkpoint.data[Era5CellOf(ix)]]_vars

\* ------------------------------------------------------------------------
\* Legacy ERA5 downloader (rbc.nwp_dowloaders.era5)
\* ------------------------------------------------------------------------
\* _download_variables of the legacy module past the checkpoint test: the
\* dry-run branch prints the request inside the try block, all_success is
\* set after either branch, and the checkpoint update follows for both
legacy_download_variables(dry, outcome) ==
  IF dry
    THEN [status |-> 1, retrieve |-> FALSE, update |-> TRUE, wrote |-> FALSE]
    ELSE [status |-> IF outcome = "ok" THEN 1 ELSE 0,
          retrieve |-> TRUE, update |-> TRUE, wrote |-> outcome = "ok"]

\* Era5Downloader(...) of the legacy module: file_format is lowered and not
\* checked, the rest is the constructor of the current module
LegacyEra5Construct ==
  \E fmt \in FileFormats, client_ok \in BOOLEAN :
    IF ~client_ok
      THEN ConfigError(Exception("ValueError", "client"))
      ELSE \E vs \in Era5VarLists, lv \in Era5Levels :
             LET pl == lv[1]
                 ml == lv[2]
                 grids == Era5Grids(pl, ml)
             IN
             /\ grids # {}
             /\ IF ~validate_variables(vs, pl, ml)
                  THEN ConfigError(Exception("ValueError", "variables"))
                  ELSE \E g \in grids, res \in BOOLEAN, dry \in BOOLEAN :
                         Era5Fields(g[1], g[2], vs, pl, ml, res, dry, fmt)

LegacyEra5Init ==
  /\ provider = "nwp_era5"
  /\ UNCHANGED <<loaderVars, argv>>
  /\ CanStart
  /\ LegacyEra5Construct

\* one call of _download_variables made by the loops of the legacy
\* download_data
LegacyEra5DownloadData ==
  /\ provider = "nwp_era5"
  /\ UNCHANGED <<loaderVars, argv>>
  /\ pc = "loop"
  /\ LET year           == years[loop[1] + 1]
         month          == months[loop[2] + 1]
         level_type     == LevelTypes(pressure_levels, model_levels)[loop[3] + 1]
         checkpoint_idx == checkpoint_idx_map(level_type, pressure_levels,
                                              model_levels)
         year_idx       == Index(years, year)
         month_idx      == Index(months, month)
         ix             == Era5Cell(checkpoint, year_idx, month_idx,
                                    checkpoint_idx)
         unit           == [ix |-> loop, cell |-> ix,
                            key |-> <<year, month, level_type>>]
     IN
     /\ visited' = Append(visited, unit)
     /\ IF variables_to_download(variables, level_type) = <<>>
          THEN /\ Continue(Era5Dims)
               /\ UNCHANGED <<checkpoint, calls, network, dirVars>>
          ELSE IF ~InBounds(checkpoint, ix)
            THEN /\ Raise(Exception("IndexError", "checkpoint"))
                 /\ UNCHANGED <<checkpoint, calls, network, dirVars>>
          ELSE IF is_done(checkpoint, ix)
            THEN /\ Continue(Era5Dims)
                 /\ UNCHANGED <<checkpoint, calls, network, dirVars>>
            ELSE \E outcome \in Era5Outcomes :
                   LET r == legacy_download_variables(dry_run, outcome) IN
                   /\ calls' = Append(calls, Attempt(unit, r.status, TRUE))
                   /\ network' = IF r.retrieve THEN Append(network, unit)
                                               ELSE network
                   /\ outputs' = IF r.wrote
                                   THEN outputs \cup {<<year, month, level_type>>}
                                   ELSE outputs
                   /\ contents' = contents
                   /\ IF r.update
                        THEN /\ checkpoint' = SetCell(checkpoint, ix, r.status)
                             /\ status_pickle' = Some(checkpoint')
                        ELSE UNCHANGED <<checkpoint, status_pickle>>
                   /\ Continue(Era5Dims)
  /\ UNCHANGED <<provider, runs, cfgVars, loaded, first_run, first_calls, failed, peer,
               result>>

\* the legacy downloader on its own
InitLegacy ==
  /\ provider = "nwp_era5"
  /\ status_pickle = None
  /\ outputs = {}
  /\ pc = "init"
  /\ runs = 0
  /\ years = <<>> /\ months = <<>> /\ bidding_zones = <<>>
  /\ variables = <<>> /\ pressure_levels = None /\ model_levels = None
  /\ dry_run = FALSE /\ resume = FALSE /\ file_format = ""
  /\ checkpoint = NoArray /\ loaded = NoArray
  /\ loop = <<0, 0, 0>> /\ visited = <<>> /\ calls = <<>>
  /\ network = <<>>
  /\ first_run = None /\ first_calls = <<>> /\ failed = None /\ peer = None
  /\ raised = None
  /\ result = NoResult
  /\ configs = <<>> /\ heap = <<>> /\ last_call = NoCall /\ argv = {}
  /\ contents = <<>>

NextLegacy ==
  \/ LegacyEra5Init
  \/ LegacyEra5DownloadData

SpecLegacy == InitLegacy /\ [][NextLegacy]_vars

\* C27: a unit that the legacy ERA5 downloader processes with dry_run set
\* leads to no client.retrieve call, leaves every 0 cell of the checkpoint
\* at 0 and leaves the checkpoint file as it was.
C27_LegacyDryRunFrame ==
  [][(provider = "nwp_era5" /\ pc = "loop" /\ dry_run) =>
       /\ network' = network
       /\ \A ix \in DOMAIN checkpoint.data :
             checkpoint.data[ix] = 0 => checkpoint'.data[ix] = 0
       /\ status_pickle' = status_pickle]_vars

\* dump_to_csv raised in this step of the ENTSO-E loop
DumpRaised ==
  provider = "entsoe" /\ pc = "loop" /\ calls' # calls /\ pc' = "error"

\* what the error of C28 leaves behind: the unit's cell is still 0 in
\* memory, the checkpoint file is the one from before the call, and every
\* cell that is 1 in memory is 1 in the file
ErrorFrame ==
  [][DumpRaised =>
       /\ checkpoint' = checkpoint
       /\ checkpoint'.data[CurrentIx] = 0
       /\ status_pickle' = status_pickle
       /\ \A ix \in DOMAIN checkpoint.data :
             checkpoint.data[ix] = 1 =>
               status_pickle' # None /\ status_pickle'[1].data[ix] = 1]_vars

\* this ENTSO-E run resumes, on the same grid, a run that dump_to_csv ended
ResumesDumpError ==
  /\ provider = "entsoe" /\ failed # None
  /\ failed[1].exc.class \in {"ValueError", "TypeError"}

\* the checkpoint file of the failed run was its own or did not exist
OwnFile == failed[1].file \in {None, Some(failed[1].checkpoint)}

\* C28 (as claimed): when dump_to_csv raises, the unit's cell is still 0 in
\* memory, the checkpoint file is not rewritten and every unit recorded as 1
\* is still 1 in it; a later run with resume=true repeats no unit recorded
\* as 1 and the first unit it downloads is the failing unit.
C28_ResumeRestartsAtFailure ==
  /\ ErrorFrame
  /\ [](ResumesDumpError =>
          /\ \A n \in 1..Len(calls) :
                failed[1].checkpoint.data[calls[n].cell] # 1
          /\ calls # <<>> => calls[1].ix = failed[1].ix)

\* C28 (amended): the same frame at the error; a later run with resume=true
\* on the same grid repeats no unit recorded as 1, and, when the checkpoint
\* file of the failed run was its own or did not exist, it calls the unit
\* downloader for the units recorded as 0 in loop order: the first unit it
\* downloads is the first one recorded as 0, which is the failing unit or a
\* unit before it that returned status 0, and the failing unit is downloaded
\* again when the loop reaches it.
C28_ResumeRetriesFromFailure ==
  /\ ErrorFrame
  /\ [](ResumesDumpError =>
          /\ \A n \in 1..Len(calls) :
                failed[1].checkpoint.data[calls[n].cell] # 1
          /\ OwnFile =>
               /\ calls # <<>> =>
                    /\ Rank(calls[1].ix, GridDims)
                         <= Rank(failed[1].ix, GridDims)
                    /\ \A ix \in Units :
                          Rank(ix, GridDims) < Rank(calls[1].ix, GridDims)
                            => failed[1].checkpoint.data[CellOf(ix)] = 1
               /\ (\E n \in 1..Len(visited) : visited[n].ix = failed[1].ix)
                    => Called(failed[1].ix))

C28_Witness ==
  /\ ResumesDumpError /\ OwnFile
  /\ failed[1].exc = Exception("ValueError", "unavailable")
  /\ failed[1].ix = <<0, 1, 0>>
  /\ failed[1].checkpoint.data[<<0, 0>>] = 1
  /\ Len(visited) = 2
  /\ Len(calls) = 1 /\ calls[1].ix = <<0, 1, 0>>

\* every cell that is 1 in array a is a cell of array b and 1 there
OnesKept(a, b) ==
  \A ix \in DOMAIN a.data : a.data[ix] = 1 => InBounds(b, ix) /\ b.data[ix] = 1

\* a run is started with resume=true on the grid of the run before it
ResumesSameGrid ==
  /\ pc \in {"done", "error"} /\ pc' = "loop"
  /\ resume'
  /\ <<years', months', bidding_zones', variables',
       pressure_levels' = None, model_levels' = None>> = Grid

interrupted_after_save(file, arr, ix, status) == Some(SetCell(arr, ix, status))

\* the checkpoint file left behind when the process ends after the unit
\* downloader has done its work and before open(checkpoint_path, "wb")
interrupted(file, arr, ix, status) == file

\* what the unit downloader of the current unit does when it is called and
\* a save is to follow: status, request sent, files and CSV rows afterwards
UnitDownloads ==
  CASE provider = "entsoe" ->
         { [status |-> r.status, request |-> TRUE,
            files |-> IF r.wrote THEN outputs \cup {<<KeysAt(loop)[2],
                                                      KeysAt(loop)[1]>>}
                                 ELSE outputs,
            rows |-> IF r.wrote
                       THEN (<<KeysAt(loop)[2], KeysAt(loop)[1]>> :> r.rows)
                              @@ contents
                       ELSE contents] :
           r \in { dump_to_csv(outcome, KeysAt(loop)[1]) :
                     outcome \in {o \in EntsoeOutcomes :
                                    dump_to_csv(o, KeysAt(loop)[1]).raised
                                      = None} } }
    [] provider = "icon" ->
         { [status |-> r.status, request |-> r.request, files |-> r.files,
            rows |-> contents] :
           r \in { d \in { download_file(KeysAt(loop), outputs, dry_run,
                                         outcome) : outcome \in IconOutcomes } :
                     d.status = 1 } }
    [] provider = "era5" ->
         { [status |-> r.status, request |-> r.retrieve,
            files |-> IF r.wrote THEN outputs \cup {KeysAt(loop)}
                                 ELSE outputs,
            rows |-> contents] :
           r \in { d \in { download_variables(dry_run, outcome) :
                             outcome \in Era5Outcomes } : d.update } }

\* the process is terminated from outside after the unit downloader of the
\* current unit has done its work and before the checkpoint is saved
Terminated ==
  /\ provider \in {"entsoe", "icon", "era5"}
  /\ UNCHANGED <<loaderVars, argv>>
  /\ pc = "loop"
  /\ InBounds(checkpoint, CurrentIx)
  /\ ~is_done(checkpoint, CurrentIx)
  /\ provider = "era5" =>
       variables_to_download(variables, KeysAt(loop)[3]) # <<>>
  /\ LET unit == [ix |-> loop, cell |-> CurrentIx, key |-> KeysAt(loop)] IN
     \E r \in UnitDownloads :
       /\ visited' = Append(visited, unit)
       /\ calls' = Append(calls, Attempt(unit, r.status, TRUE))
       /\ network' = IF r.request THEN Append(network, unit) ELSE network
       /\ outputs' = r.files
       /\ contents' = r.rows
       /\ status_pickle' = interrupted(status_pickle, checkpoint, CurrentIx,
                                       r.status)
  /\ pc' = "killed" /\ loop' = loop /\ raised' = None
  /\ UNCHANGED <<provider, runs, cfgVars, checkpoint, loaded, first_run,
                 first_calls, failed, peer, result>>

\* the first process of a resume chain: any downloader, in a directory
\* without a checkpoint file
ChainStart ==
  /\ pc = "init"
  /\ \/ EntsoeInit
     \/ IconInit
     \/ Era5Init

\* the next process of the chain: the same downloader constructed again
\* with resume=True for the same grid
ChainResume ==
  /\ pc \in {"done", "error", "killed"} /\ runs < MaxRuns
  /\ UNCHANGED <<loaderVars, argv>>
  /\ CASE provider = "entsoe" -> EntsoeConstruct({TRUE})
       [] provider = "icon"   -> IconConstruct({TRUE})
       [] provider = "era5"   -> Era5Construct(FileFormats, {TRUE})
  /\ pc' = "loop" =>
       <<years', months', bidding_zones', variables',
         pressure_levels' = None, model_levels' = None>> = Grid
  /\ pc' = "config_error" => raised'[1].at \in {"token", "client"}

\* resume chains in which a process can be terminated before a save
NextKill ==
  \/ ChainStart
  \/ ChainResume
  \/ EntsoeDumpAllToCsv
  \/ IconDownloadData
  \/ Era5DownloadData
  \/ Terminated

SpecKill == Init /\ [][NextKill]_vars

\* the unit downloader returned status 1 for the unit of the cell in this
\* run
ReturnedOne(ix) ==
  \E n \in 1..Len(calls) :
    calls[n].cell = ix /\ calls[n].returned /\ calls[n].status = 1

\* the cell is 1 in the array
IsOne(arr, ix) == InBounds(arr, ix) /\ arr.data[ix] = 1

\* C30: a cell is 1 in the matrix of a run only if the run loaded it as 1
\* from the checkpoint file or its unit downloader returned status 1 for the
\* unit; no file exists before the first run, a step puts a 1 into the
\* checkpoint file only for a cell that was 1 in the matrix before or whose
\* unit has just returned status 1, and a run loads its matrix from the file
\* or starts with zeros; a process terminated between the download of a unit
\* and the save leaves the file as it was, the cell of the unit 0 in it.
C30_CheckpointNeverAhead ==
  /\ [](pc \in {"loop", "done", "error", "killed"} =>
          \A ix \in DOMAIN checkpoint.data :
            checkpoint.data[ix] = 1 => IsOne(loaded, ix) \/ ReturnedOne(ix))
  /\ [][pc = "loop" /\ status_pickle' # None =>
          \A ix \in DOMAIN status_pickle'[1].data :
            (status_pickle'[1].data[ix] = 1
               /\ ~(status_pickle # None /\ IsOne(status_pickle[1], ix))) =>
              \/ checkpoint.data[ix] = 1
              \/ /\ Attempted
                 /\ Last(calls').cell = ix /\ Last(calls').status = 1]_vars
  /\ [][pc' = "loop" /\ pc # "loop" =>
          /\ status_pickle' = status_pickle
          /\ \A ix \in DOMAIN loaded'.data :
                loaded'.data[ix] = 1 =>
                  status_pickle # None /\ IsOne(status_pickle[1], ix)]_vars
  /\ [][pc' = "killed" =>
          /\ status_pickle' = status_pickle
          /\ status_pickle' # None =>
               status_pickle'[1].data[CurrentIx] = 0]_vars

C30_Witness ==
  /\ pc = "killed"
  /\ Len(calls) = 2
  /\ calls[1].status = 1 /\ calls[2].status = 1 /\ calls[2].returned
  /\ status_pickle # None
  /\ status_pickle[1].data[calls[1].cell] = 1
  /\ status_pickle[1].data[calls[2].cell] = 0

\* ------------------------------------------------------------------------
\* ICON-DREAM: process termination in the middle of a download
\* ------------------------------------------------------------------------
\* what open(output_file, "wb") and the chunks written so far leave on disk
\* when the process ends inside the loop over response.iter_content
Partial == <<"partial">>

\* the process is terminated from outside while _download_file writes the
\* chunks of the current unit: the file exists and is incomplete, neither
\* except handler runs, the checkpoint is neither marked nor saved
IconTerminatedInDownload ==
  /\ provider = "icon"
  /\ UNCHANGED <<loaderVars, argv>>
  /\ pc = "loop"
  /\ InBounds(checkpoint, loop)
  /\ ~is_done(checkpoint, loop)
  /\ KeysAt(loop) \notin outputs
  /\ ~dry_run
  /\ LET unit == [ix |-> loop, cell |-> loop, key |-> KeysAt(loop)] IN
     /\ visited' = Append(visited, unit)
     /\ calls' = Append(calls, Attempt(unit, 0, FALSE))
     /\ network' = Append(network, unit)
     /\ outputs' = outputs \cup {KeysAt(loop)}
     /\ contents' = (KeysAt(loop) :> Partial) @@ contents
  /\ pc' = "killed" /\ loop' = loop /\ raised' = None
  /\ UNCHANGED <<provider, runs, cfgVars, checkpoint, status_pickle, loaded,
                 first_run, first_calls, failed, peer, result>>

\* the first ICON-DREAM process: fresh checkpoint, empty output directory
IconFirstRun ==
  /\ pc = "init"
  /\ IconInit

\* a later process on the same output directory and grid, with or without
\* resume and dry_run
IconLaterRun ==
  /\ provider = "icon"
  /\ pc \in {"done", "killed"} /\ runs < MaxRuns
  /\ UNCHANGED <<loaderVars, argv>>
  /\ IconConstruct(BOOLEAN)
  /\ <<years', months', bidding_zones', variables', TRUE, TRUE>> = Grid

InitIcon == Init /\ provider = "icon"

NextIcon ==
  \/ IconFirstRun
  \/ IconLaterRun
  \/ IconDownloadData
  \/ IconTerminatedInDownload

SpecIcon == InitIcon /\ [][NextIcon]_vars

\* the file of a unit is on disk and its download wrote it to the end
Complete(file) == file \in outputs /\ file \notin DOMAIN contents

\* C31: in the ICON-DREAM downloader, from a fresh checkpoint and an empty
\* output directory, a checkpoint cell that is 1 (in memory or in
\* status.pickle) has its unit's output file on disk, written to completion
\* by a download that finished, across dry runs and runs terminated in the
\* middle of a download.
C31_IconOnesHaveFiles ==
  pc \in {"loop", "done", "killed"} =>
    /\ \A ix \in DOMAIN checkpoint.data :
         checkpoint.data[ix] = 1 => Complete(KeysAt(ix))
    /\ status_pickle # None =>
         \A ix \in DOMAIN status_pickle[1].data :
           status_pickle[1].data[ix] = 1 => Complete(KeysAt(ix))

\* the same without dry runs: only the file left by a terminated download
C31_IconOnesHaveFilesNoDryRun ==
  [](~dry_run) => []C31_IconOnesHaveFiles

\* ------------------------------------------------------------------------
\* A run without resume between two runs on the same output directory
\* ------------------------------------------------------------------------
\* the first process on an empty output directory, any downloader
FreshFirstRun ==
  /\ pc = "init"
  /\ \/ EntsoeInit
     \/ IconInit
     \/ Era5Init

\* a later process on the same output directory and grid, with or without
\* resume; one process more than CanStart allows, so that a run without
\* resume has a run before it and a run after it
FreshLaterRun ==
  /\ pc \in {"done", "error", "killed"} /\ runs <= MaxRuns
  /\ UNCHANGED <<loaderVars, argv>>
  /\ CASE provider = "entsoe" -> EntsoeConstruct(BOOLEAN)
       [] provider = "icon"   -> IconConstruct(BOOLEAN)
       [] provider = "era5"   -> Era5Construct(FileFormats, BOOLEAN)
  /\ <<years', months', bidding_zones', variables',
       pressure_levels' = None, model_levels' = None>> = Grid

NextFresh ==
  \/ FreshFirstRun
  \/ FreshLaterRun
  \/ EntsoeDumpAllToCsv
  \/ IconDownloadData
  \/ Era5DownloadData
  \/ Terminated

SpecFresh == Init /\ [][NextFresh]_vars

\* a process exists or has ended, terminated ones included
Ran == pc \in {"loop", "done", "error", "killed"}

\* a run has ended and the next process is constructed with resume=True
ResumesAfter == pc \in {"done", "error", "killed"} /\ pc' = "loop" /\ resume'

\* every 1 of matrix a is a 1 of matrix b
OnesWithin(a, b) ==
  \A ix \in DOMAIN a.data : a.data[ix] = 1 => IsOne(b, ix)

\* C32 as stated: a construction with resume=false discards earlier
\* progress; the run with resume=true that follows the run without resume
\* loads no 1 but those the run without resume marked itself, whatever the
\* outcome of that run.
C32_FreshDiscardsProgress ==
  [][(ResumesAfter /\ ~resume) => OnesWithin(loaded', checkpoint)]_vars

\* C32 amended: a construction with resume=false starts from zeros in memory
\* and leaves status.pickle as it is; the file still is the one from before
\* the construction until the run's first save, which comes only once a
\* unit attempt is recorded, so during and after the run either the file
\* equals the run's matrix or the run's matrix is all zeros; a following
\* run with resume=true loads the file as it is, hence earlier 1s only if
\* the run without resume marked nothing.
C32_FreshKeepsFileUntilSave ==
  /\ [](Ran /\ ~resume =>
         \/ status_pickle = Some(checkpoint)
         \/ Values(checkpoint) = {0})
  /\ [][(pc' = "loop" /\ runs' # runs /\ ~resume') =>
          /\ checkpoint' = Zeros(checkpoint'.shape)
          /\ status_pickle' = status_pickle]_vars
  /\ [][(ResumesAfter /\ ~resume) =>
          /\ loaded' = InitCheckpoint(TRUE, status_pickle, checkpoint.shape)
          /\ \/ OnesWithin(loaded', checkpoint)
             \/ Values(checkpoint) = {0}]_vars

\* an ENTSO-E run without resume raised at its first unit with a 1 of an
\* earlier run on disk, and the run with resume that follows has loaded it
C32_Witness ==
  /\ pc = "loop" /\ resume /\ failed # None
  /\ Values(failed[1].checkpoint) = {0}
  /\ failed[1].file # None
  /\ 1 \in Values(failed[1].file[1])
  /\ loaded = failed[1].file[1]

\* ------------------------------------------------------------------------
\* Two processes on one output directory
\* ------------------------------------------------------------------------
\* what belongs to the running process: its downloader object and its
\* position
ProcState ==
  [pc |-> pc, resume |-> resume, dry_run |-> dry_run,
   checkpoint |-> checkpoint, loop |-> loop, visited |-> visited,
   calls |-> calls, network |-> network, loaded |-> loaded,
   raised |-> raised, result |-> result]

\* a process that has not called its constructor yet
Unstarted ==
  [pc |-> "init", resume |-> FALSE, dry_run |-> FALSE,
   checkpoint |-> NoArray, loop |-> <<0, 0, 0>>, visited |-> <<>>,
   calls |-> <<>>, network |-> <<>>, loaded |-> NoArray,
   raised |-> None, result |-> NoResult]

\* the operating system suspends the running process between two units and
\* runs the other one, which is started while the first one is in its
\* loop; the output directory is shared, nothing is locked
Switch ==
  /\ pc \in {"loop", "done", "error"}
  /\ peer = None => pc = "loop"
  /\ LET other == IF peer = None THEN Unstarted ELSE peer[1] IN
     /\ peer' = Some(ProcState)
     /\ pc' = other.pc /\ resume' = other.resume
     /\ dry_run' = other.dry_run /\ checkpoint' = other.checkpoint
     /\ loop' = other.loop /\ visited' = other.visited
     /\ calls' = other.calls /\ network' = other.network
     /\ loaded' = other.loaded /\ raised' = other.raised
     /\ result' = other.result
  /\ UNCHANGED <<provider, dirVars, runs, years, months, bidding_zones,
                 variables, pressure_levels, model_levels, file_format,
                 first_run, first_calls, failed, loaderVars, argv>>

\* a process is started: the first one on an empty output directory, the
\* second one with the same grid while the first one is suspended
RaceStart ==
  /\ pc = "init"
  /\ \/ EntsoeInit
     \/ IconInit
     \/ Era5Init
  /\ pc' = "loop" => Cardinality(DOMAIN checkpoint'.data) <= MaxShared
  /\ peer # None =>
       <<years', months', bidding_zones', variables',
         pressure_levels' = None, model_levels' = None>> = Grid

NextRace ==
  \/ RaceStart
  \/ Switch
  \/ EntsoeDumpAllToCsv
  \/ IconDownloadData
  \/ Era5DownloadData

SpecRace == Init /\ [][NextRace]_vars

\* process p marked a unit 1 after its download returned 1 and
\* status.pickle records 0 for it
LostUpdate(p) ==
  /\ ~p.dry_run
  /\ status_pickle # None
  /\ \E n \in 1..Len(p.calls) :
       /\ p.calls[n].status = 1
       /\ IsOne(p.checkpoint, p.calls[n].cell)
       /\ InBounds(status_pickle[1], p.calls[n].cell)
       /\ status_pickle[1].data[p.calls[n].cell] = 0

\* C33: two processes on the same output directory race on the checkpoint
\* file, since each process overwrites the whole file from its own matrix
\* without locking: the file is at every moment the whole matrix of one of
\* the two processes, never a merge; a save writes the matrix of the
\* running process, which differs from what that process held before only
\* at the unit it has just attempted; and a constructor loads the file as
\* it is at that moment or starts from zeros.  The witness is the lost
\* update: status.pickle records 0 for a unit one process completed with 1.
C33_WholeFileOverwrite ==
  /\ [](status_pickle # None =>
         \/ status_pickle[1] = checkpoint
         \/ peer # None /\ status_pickle[1] = peer[1].checkpoint)
  /\ [][status_pickle' # status_pickle =>
          /\ status_pickle' = Some(checkpoint')
          /\ \A ix \in DOMAIN checkpoint.data \ {CurrentIx} :
               checkpoint'.data[ix] = checkpoint.data[ix]]_vars
  /\ [][(pc = "init" /\ pc' = "loop") =>
          checkpoint' = IF resume' /\ status_pickle # None
                          THEN status_pickle[1]
                          ELSE Zeros(checkpoint'.shape)]_vars

\* both processes were started with resume=True, so the one that wrote the
\* 0 had loaded the file before the other one saved its 1
C33_Witness ==
  /\ peer # None
  /\ resume /\ peer[1].resume
  /\ LostUpdate(ProcState) \/ LostUpdate(peer[1])

\* ------------------------------------------------------------------------
\* Output paths
\* ------------------------------------------------------------------------
\* sep.join(list)
RECURSIVE Join(_, _)
Join(list, sep) ==
  IF list = <<>> THEN ""
  ELSE IF Len(list) = 1 THEN list[1]
  ELSE list[1] \o sep \o Join(Tail(list), sep)

\* one CSV file per year in the output directory, whatever the zone
csv_file_path_flat(zone, year) == year.str \o ".csv"

\* Path(self.output_path, zone, year + ".csv"), relative to the output
\* directory
csv_file_path(zone, year) == zone \o "/" \o year.str \o ".csv"

\* filename of _download_file
icon_filename(year, month, variable) ==
  "ICON-DREAM-Global_" \o ToString(year) \o month \o "_" \o variable
    \o "_hourly.grb"

\* every pressure level and every model level the provider has; a request
\* for all of them is named without the list of levels
ALL_PRESSURE_LEVELS == <<"1000", "975", "950", "925">>
ALL_MODEL_LEVELS == <<"134", "135", "136", "137">>

\* _get_mars_param: the MARS code of a variable, or the name without
\* underscores cut to 10 characters
get_mars_param(variable) ==
  CASE variable = "2m_temperature"          -> "2t"
    [] variable = "10m_u_component_of_wind" -> "10u"
    [] variable = "temperature"             -> "t"
    [] variable = "u_component_of_wind"     -> "u"
    [] variable = "invalid_variable"        -> "invalidvar"

\* short codes of a list of variables
mars_params(vs) == [i \in 1..Len(vs) |-> get_mars_param(vs[i])]

\* level_prefix and level_suffix of _download_variables
level_prefix(level_type) ==
  CASE level_type = "single"   -> "sl"
    [] level_type = "pressure" -> "pl"
    [] OTHER                   -> "ml"

level_suffix(level_type, pl, ml) ==
  "_" \o level_prefix(level_type) \o
    (IF level_type = "pressure" /\ pl # None /\ pl[1] # ALL_PRESSURE_LEVELS
       THEN "_" \o Join(pl[1], "-")
     ELSE IF level_type = "model" /\ ml # None /\ ml[1] # ALL_MODEL_LEVELS
       THEN "_" \o Join(ml[1], "-")
     ELSE "")

\* self.file_extension
file_extension(fmt) == IF fmt = "netcdf" THEN "nc" ELSE "grib"

\* output_file of _download_variables, relative to the output directory
era5_output_file(year, month, level_type, vs, pl, ml, fmt) ==
  "era5_" \o ToString(year) \o "_" \o month
    \o level_suffix(level_type, pl, ml) \o "_"
    \o Join(mars_params(variables_to_download(vs, level_type)), "-")
    \o "." \o file_extension(fmt)

\* the path the unit at a loop position is written to
OutputPath(ix) ==
  LET k == KeysAt(ix) IN
  CASE provider = "entsoe" -> csv_file_path(k[2], k[1])
    [] provider = "icon"   -> icon_filename(k[1], k[2], k[3])
    [] provider = "era5"   ->
         era5_output_file(k[1], k[2], k[3], variables, pressure_levels,
                          model_levels, file_format)

\* key lists as the command line takes them: a key may be given twice
RepeatedKeyLists(universe) ==
  KeyLists(universe) \cup {<<universe[1], universe[1]>>}

\* pressure levels of a request: the default ones or all of them
Era5NamedLevels ==
  {<<Some(DEFAULT_PRESSURE_LEVELS), None>>,
   <<Some(ALL_PRESSURE_LEVELS), None>>,
   <<Some(DEFAULT_PRESSURE_LEVELS), Some(DEFAULT_MODEL_LEVELS)>>,
   <<None, Some(ALL_MODEL_LEVELS)>>}

\* a downloader is constructed on an empty output directory; its key lists
\* can repeat a key
NamesStart ==
  /\ pc = "init" /\ runs < MaxRuns
  /\ UNCHANGED <<loaderVars, argv>>
  /\ CASE provider = "entsoe" ->
            \E yrs \in RepeatedKeyLists(
                         [i \in 1..MaxDim |->
                            PyStr(ToString(YearUniverse[i]))]),
               zones \in RepeatedKeyLists(ZoneUniverse) :
              /\ Len(yrs) * Len(zones) <= MaxCells
              /\ EntsoeFields(yrs, zones, FALSE)
       [] provider = "icon" ->
            \E yrs \in RepeatedKeyLists(YearUniverse),
               mths \in RepeatedKeyLists(MonthUniverse),
               vs \in RepeatedKeyLists(IconVarUniverse) :
              /\ Len(yrs) * Len(mths) * Len(vs) <= MaxCells
              /\ years' = yrs /\ months' = mths /\ variables' = vs
              /\ bidding_zones' = <<>>
              /\ pressure_levels' = None /\ model_levels' = None
              /\ dry_run' = FALSE /\ file_format' = "" /\ resume' = FALSE
              /\ Constructed(Zeros(<<Len(yrs), Len(mths), Len(vs)>>),
                             <<yrs, mths, <<>>, vs, TRUE, TRUE>>)
       [] provider = "era5" ->
            \E yrs \in RepeatedKeyLists(YearUniverse),
               mths \in RepeatedKeyLists(MonthUniverse),
               vs \in Era5VarLists, lv \in Era5NamedLevels,
               fmt \in {"grib", "netcdf"} :
              /\ Len(yrs) * Len(mths) * num_level_types(lv[1], lv[2])
                   <= MaxCells
              /\ validate_variables(vs, lv[1], lv[2])
              /\ Era5Fields(yrs, mths, vs, lv[1], lv[2], FALSE, FALSE, fmt)

\* the loop reaches a unit and the unit downloader builds its output path;
\* an ERA5 level type without variables builds none
NameUnit ==
  /\ pc = "loop"
  /\ UNCHANGED <<loaderVars, argv>>
  /\ IF provider = "era5"
          /\ variables_to_download(variables, KeysAt(loop)[3]) = <<>>
       THEN UNCHANGED <<visited, outputs>>
       ELSE /\ visited' = Append(visited, [ix |-> loop, cell |-> loop,
                                           key |-> OutputPath(loop)])
            /\ outputs' = outputs \cup {OutputPath(loop)}
  /\ Continue(GridDims)
  /\ UNCHANGED <<provider, runs, cfgVars, checkpoint, status_pickle, contents,
                 calls, network, loaded, first_run, first_calls, failed,
                 peer, result>>

NextNames ==
  \/ NamesStart
  \/ NameUnit

SpecNames == Init /\ [][NextNames]_vars

\* C34: output paths are a function of the unit's coordinates (its keys:
\* zone and year; year, month and variable; year, month and level type) and
\* units of one run with different coordinates never map to the same
\* output path, so no unit overwrites the file of another unit; a key that
\* is given twice names the same unit and the same path twice.
C34_PathsDistinguishKeys ==
  \A m, n \in 1..Len(visited) :
    /\ visited[m].key = OutputPath(visited[m].ix)
    /\ visited[m].key = visited[n].key
         <=> KeysAt(visited[m].ix) = KeysAt(visited[n].ix)

\* a run has built the paths of units with different keys, and of two units
\* with the same keys
C34_Witness ==
  /\ pc = "done"
  /\ \E m, n \in 1..Len(visited) :
       KeysAt(visited[m].ix) # KeysAt(visited[n].ix)
  /\ \E m, n \in 1..Len(visited) :
       m # n /\ KeysAt(visited[m].ix) = KeysAt(visited[n].ix)

\* ------------------------------------------------------------------------
\* ERA5 request building
\* ------------------------------------------------------------------------
MARS_CLASS == "ea"
MARS_STREAM == "oper"
MARS_TYPE == "an"
MARS_EXPVER == "1"
LEVTYPE_SINGLE == "sfc"
LEVTYPE_PRESSURE == "pl"
LEVTYPE_MODEL == "ml"

\* int(month) for the months "01" to "12"
int(month) == CHOOSE i \in 1..Len(AllMonths) : AllMonths[i] = month

\* f"{n:02d}"
format_02d(n) == IF n < 10 THEN "0" \o ToString(n) ELSE ToString(n)

\* calendar.isleap
isleap(year) == year % 4 = 0 /\ (year % 100 # 0 \/ year % 400 = 0)

\* calendar.mdays
mdays == <<31, 28, 31, 30, 31, 30, 31, 31, 30, 31, 30, 31>>

\* a calendar in which February always has 28 days
monthrange_no_leap(year, month) == mdays[month]

\* calendar.monthrange(year, month)[1]
monthrange(year, month) ==
  mdays[month] + (IF month = 2 /\ isleap(year) THEN 1 ELSE 0)

\* rbc.weather.utils.get_days_in_month
get_days_in_month(year, month) ==
  LET month_int == int(month) IN
  IF month_int \in {1, 3, 5, 7, 8, 10, 12} THEN 31
  ELSE IF month_int \in {4, 6, 9, 11} THEN 30
  ELSE IF (year % 4 = 0 /\ year % 100 # 0) \/ year % 400 = 0 THEN 29
  ELSE 28

\* the 24 hours of a day as HH:MM:SS
times == [i \in 1..24 |-> format_02d(i - 1) \o ":00:00"]

\* _build_mars_request_batch, without the grid and area entries
build_mars_request_batch(vs, year, month, level_type, pl, ml) ==
  LET days_in_month == monthrange(year, int(month))
      date_range == ToString(year) \o "-" \o month \o "-01/to/"
                      \o ToString(year) \o "-" \o month \o "-"
                      \o format_02d(days_in_month)
      request == [k \in {"class", "date", "expver", "param", "stream",
                         "time", "type"} |->
                    CASE k = "class"  -> MARS_CLASS
                      [] k = "date"   -> date_range
                      [] k = "expver" -> MARS_EXPVER
                      [] k = "param"  -> Join(mars_params(vs), "/")
                      [] k = "stream" -> MARS_STREAM
                      [] k = "time"   -> Join(times, "/")
                      [] k = "type"   -> MARS_TYPE]
  IN
  CASE level_type = "single" ->
         ("levtype" :> LEVTYPE_SINGLE) @@ request
    [] level_type = "pressure" ->
         (IF pl # None THEN ("levelist" :> Join(pl[1], "/")) ELSE <<>>)
           @@ ("levtype" :> LEVTYPE_PRESSURE) @@ request
    [] level_type = "model" ->
         (IF ml # None THEN ("levelist" :> Join(ml[1], "/")) ELSE <<>>)
           @@ ("levtype" :> LEVTYPE_MODEL) @@ request
    [] OTHER -> request

\* years a request is built for: the grid's, a century that is a leap
\* year and one that is not
MarsYears == Range(YearUniverse) \cup {1900, 2000}

\* variables a request is built for, as _download_variables and the tests
\* of the request builder hand them over
MarsVarLists ==
  {<<"2m_temperature">>, <<"temperature">>,
   <<"2m_temperature", "10m_u_component_of_wind">>,
   <<"temperature", "u_component_of_wind">>,
   <<"u_component_of_wind", "temperature">>}

\* an ERA5 downloader is constructed
MarsStart ==
  /\ pc = "init"
  /\ Era5Init

\* _download_variables builds the request of one unit: some variables, for
\* a level type the downloader is configured with; the builder keeps no
\* state, so one call per downloader shows all it does
BuildMarsRequest ==
  /\ provider = "era5" /\ pc = "loop"
  /\ last_call = NoCall
  /\ \E year \in MarsYears, month \in Range(AllMonths), vs \in MarsVarLists,
        n \in 1..Len(LevelTypes(pressure_levels, model_levels)) :
       LET level_type == LevelTypes(pressure_levels, model_levels)[n]
       IN
       /\ last_call' =
            [op |-> "_build_mars_request_batch",
             args |-> [variables |-> vs, year |-> year, month |-> month,
                       level_type |-> level_type],
             ret |-> build_mars_request_batch(vs, year, month, level_type,
                                              pressure_levels, model_levels)]
  /\ UNCHANGED <<provider, dirVars, runs, cfgVars, pc, checkpoint, loop,
                 visited, calls, network, loaded, first_run, first_calls,
                 failed, peer, raised, result, configs, heap, argv>>

NextMars ==
  \/ MarsStart
  \/ BuildMarsRequest

SpecMars == Init /\ [][NextMars]_vars

\* the levels the downloader is configured with for a level type
ConfiguredLevels(level_type) ==
  IF level_type = "pressure" THEN pressure_levels[1] ELSE model_levels[1]

\* the strings of a list with "/" between them, in the order of the list
Slashed(list) ==
  CASE Len(list) = 1 -> list[1]
    [] Len(list) = 2 -> list[1] \o "/" \o list[2]
    [] Len(list) = 3 -> list[1] \o "/" \o list[2] \o "/" \o list[3]
    [] Len(list) = 4 -> list[1] \o "/" \o list[2] \o "/" \o list[3]
                          \o "/" \o list[4]

\* C35: _build_mars_request_batch returns a request whose param is the
\* MARS codes of the given variables joined by "/" in input order, whose
\* date spans from day 01 to the last calendar day of the given month and
\* year, whose levtype is sfc, pl or ml for level type single, pressure or
\* model, and which contains levelist, the configured levels joined by
\* "/", if and only if the level type is pressure or model.
C35_MarsRequest ==
  last_call.op = "_build_mars_request_batch" =>
    LET a == last_call.args
        r == last_call.ret
    IN
    /\ r.param = Slashed([i \in 1..Len(a.variables) |->
                            get_mars_param(a.variables[i])])
    /\ r.date = ToString(a.year) \o "-" \o a.month \o "-01/to/"
                  \o ToString(a.year) \o "-" \o a.month \o "-"
                  \o ToString(get_days_in_month(a.year, a.month))
    /\ r.levtype = CASE a.level_type = "single"   -> "sfc"
                      [] a.level_type = "pressure" -> "pl"
                      [] a.level_type = "model"    -> "ml"
    /\ "levelist" \in DOMAIN r <=> a.level_type \in {"pressure", "model"}
    /\ "levelist" \in DOMAIN r =>
         r.levelist = Slashed(ConfiguredLevels(a.level_type))

\* a request for two variables on pressure levels in the February of a
\* century that is a leap year
C35_Witness ==
  /\ last_call.op = "_build_mars_request_batch"
  /\ last_call.args.level_type = "pressure"
  /\ last_call.args.year = 2000 /\ last_call.args.month = "02"
  /\ last_call.ret.date = "2000-02-01/to/2000-02-29"
  /\ last_call.ret.levelist = "1000/975/950"
  /\ last_call.ret.param = "u/t"

====
